---------------------------- MODULE Spec2Model ----------------------------
(***************************************************************************)
(* AG-UI event-stream relay: the SSE decode loops of the Next.js bridge    *)
(* (forwardToAGUIServer, Home.sendMessage), the bridge's own SSE encoder   *)
(* (handleDirectRequest), the WebSocket clients (WebSocketAgent,           *)
(* ChatInterface) and the tutorial's Python agents and state reducer.      *)
(*                                                                         *)
(* Text is modelled at the level of single characters: a text is a         *)
(* sequence of one-character strings, so that framing, line splitting,     *)
(* prefix tests and JSON parsing are computed, not assumed.                *)
(***************************************************************************)
EXTENDS Integers, Sequences, FiniteSets, TLC

(***************************************************************************)
(* Characters and text literals                                            *)
(***************************************************************************)
QUOTE == "\""
BACKSLASH == "\\"
LF == "\n"
SPACE == " "

DATA_PREFIX == <<"d","a","t","a",":"," ">>
K_type == <<"t","y","p","e">>
K_delta == <<"d","e","l","t","a">>
K_message_id == <<"m","e","s","s","a","g","e","_","i","d">>
K_messageId == <<"m","e","s","s","a","g","e","I","d">>
K_role == <<"r","o","l","e">>
K_thread_id == <<"t","h","r","e","a","d","_","i","d">>
K_run_id == <<"r","u","n","_","i","d">>
V_assistant == <<"a","s","s","i","s","t","a","n","t">>
V_undefined == <<"u","n","d","e","f","i","n","e","d">>
RUN_STARTED == <<"R","U","N","_","S","T","A","R","T","E","D">>
RUN_FINISHED == <<"R","U","N","_","F","I","N","I","S","H","E","D">>
RUN_ERROR == <<"R","U","N","_","E","R","R","O","R">>
\* An event type no consumer has a branch for.
CUSTOM == <<"C","U","S","T","O","M">>
TEXT_MESSAGE_START == <<"T","E","X","T","_","M","E","S","S","A","G","E","_","S","T","A","R","T">>
TEXT_MESSAGE_CONTENT == <<"T","E","X","T","_","M","E","S","S","A","G","E","_","C","O","N","T","E","N","T">>
TEXT_MESSAGE_END == <<"T","E","X","T","_","M","E","S","S","A","G","E","_","E","N","D">>

LOWER ==
    <<"a","b","c","d","e","f","g","h","i","j","k","l","m",
      "n","o","p","q","r","s","t","u","v","w","x","y","z">>
UPPER ==
    <<"A","B","C","D","E","F","G","H","I","J","K","L","M",
      "N","O","P","Q","R","S","T","U","V","W","X","Y","Z">>
Digits == <<"0","1","2","3","4","5","6","7","8","9">>

\* F applied to the value of e: e is evaluated once, whatever the number of
\* times F uses its argument.
With(e, F(_)) == CHOOSE r \in {F(x) : x \in {e}} : TRUE

\* Concatenation of a sequence of texts.
RECURSIVE concatFrom(_, _)
concatFrom(ts, i) == IF i > Len(ts) THEN <<>> ELSE ts[i] \o concatFrom(ts, i + 1)

Concat(texts) == With(texts, LAMBDA ts : concatFrom(ts, 1))

(***************************************************************************)
(* JavaScript string primitives used by the decode loops                   *)
(***************************************************************************)
\* String.prototype.startsWith
startsWith(t, p) == Len(t) >= Len(p) /\ SubSeq(t, 1, Len(p)) = p

\* slice with the prefix length off by one.
sliceOffByOne(t, n) == SubSeq(t, n + 2, Len(t))

\* String.prototype.slice(n): the text from (0-based) index n on.
slice(t, n) == SubSeq(t, n + 1, Len(t))

\* The offset of the first c of t at or after i, Len(t) + 1 if none.
indexOf(t, c, i) ==
    CHOOSE j \in i..(Len(t) + 1) :
        /\ j = Len(t) + 1 \/ t[j] = c
        /\ \A k \in i..(j - 1) : t[k] # c

\* The pieces of t between occurrences of c, from offset i on.
RECURSIVE splitFrom(_, _, _)
splitFrom(t, c, i) ==
    With(indexOf(t, c, i), LAMBDA j :
        IF j > Len(t) THEN <<SubSeq(t, i, Len(t))>>
        ELSE <<SubSeq(t, i, j - 1)>> \o splitFrom(t, c, j + 1))

\* String.prototype.split('\n'): the pieces between line feeds; a text with
\* k line feeds yields k+1 pieces, empty pieces included.
split(text) == With(text, LAMBDA t : splitFrom(t, LF, 1))

\* Python's str.split('/')
split_slash(text) == With(text, LAMBDA t : splitFrom(t, "/", 1))

IsWhitespace(c) == c \in {SPACE, LF, "\t", "\r"}

\* String.prototype.trim
firstNonWs(t) ==
    CHOOSE i \in 1..(Len(t) + 1) :
        /\ i = Len(t) + 1 \/ ~IsWhitespace(t[i])
        /\ \A k \in 1..(i - 1) : IsWhitespace(t[k])

lastNonWs(t) ==
    CHOOSE i \in 0..Len(t) :
        /\ i = 0 \/ ~IsWhitespace(t[i])
        /\ \A k \in (i + 1)..Len(t) : IsWhitespace(t[k])

trim(text) == With(text, LAMBDA t : SubSeq(t, firstNonWs(t), lastNonWs(t)))

(***************************************************************************)
(* JSON.parse and JSON encoding, on the fragment of JSON the event frames  *)
(* use: an object whose members are strings, or a bare string.  A parse    *)
(* yields [ok, isObject, fields]; ok = FALSE is the SyntaxError.           *)
(***************************************************************************)
ParseFail == [ok |-> FALSE, isObject |-> FALSE, fields |-> <<>>]

\* The character a JSON escape \c stands for.
Unescape(c) ==
    CASE c = QUOTE -> QUOTE
      [] c = BACKSLASH -> BACKSLASH
      [] c = "/" -> "/"
      [] c = "n" -> LF
      [] c = "t" -> "\t"
      [] c = "r" -> "\r"
      [] OTHER -> ""

\* The first offset at or after i that holds no whitespace.
skipWs(t, i) ==
    CHOOSE j \in i..(Len(t) + 1) :
        /\ j = Len(t) + 1 \/ ~IsWhitespace(t[j])
        /\ \A k \in i..(j - 1) : IsWhitespace(t[k])

\* The string literal whose opening quote is at i - 1: [ok, val, next].
RECURSIVE parseStringBody(_, _, _)
parseStringBody(t, i, acc) ==
    IF i > Len(t) THEN [ok |-> FALSE, val |-> <<>>, next |-> i]
    ELSE IF t[i] = QUOTE THEN [ok |-> TRUE, val |-> acc, next |-> i + 1]
    ELSE IF t[i] = BACKSLASH THEN
        IF i + 1 > Len(t) \/ Unescape(t[i + 1]) = ""
        THEN [ok |-> FALSE, val |-> <<>>, next |-> i]
        ELSE With(Append(acc, Unescape(t[i + 1])), LAMBDA a :
                parseStringBody(t, i + 2, a))
    ELSE IF t[i] \in {LF, "\t", "\r"}
        THEN [ok |-> FALSE, val |-> <<>>, next |-> i]
    ELSE With(Append(acc, t[i]), LAMBDA a : parseStringBody(t, i + 1, a))

parseString(t, i) ==
    IF i <= Len(t) /\ t[i] = QUOTE THEN parseStringBody(t, i + 1, <<>>)
    ELSE [ok |-> FALSE, val |-> <<>>, next |-> i]

MembersFail == [ok |-> FALSE, fields |-> <<>>, next |-> 0]

\* The members of an object from offset i (just after "{" or ","), fields
\* being the <<key, value>> pairs already read, in source order:
\* [ok, fields, next].
RECURSIVE parseMembers(_, _, _)
parseMembers(t, i, fields) ==
    With(parseString(t, skipWs(t, i)), LAMBDA k :
    IF ~k.ok THEN MembersFail
    ELSE With(skipWs(t, k.next), LAMBDA c :
    IF c > Len(t) \/ t[c] # ":" THEN MembersFail
    ELSE With(parseString(t, skipWs(t, c + 1)), LAMBDA v :
    IF ~v.ok THEN MembersFail
    ELSE With(skipWs(t, v.next), LAMBDA e :
    IF e > Len(t) THEN MembersFail
    ELSE IF t[e] = "}"
        THEN [ok |-> TRUE, fields |-> Append(fields, <<k.val, v.val>>),
              next |-> e + 1]
    ELSE IF t[e] = ","
        THEN With(Append(fields, <<k.val, v.val>>), LAMBDA fs :
                parseMembers(t, e + 1, fs))
    ELSE MembersFail))))

parseObject(t, i) ==
    With(skipWs(t, i + 1), LAMBDA j :
    With(IF j <= Len(t) /\ t[j] = "}"
         THEN [ok |-> TRUE, fields |-> <<>>, next |-> j + 1]
         ELSE parseMembers(t, i + 1, <<>>), LAMBDA m :
    IF m.ok /\ skipWs(t, m.next) > Len(t)
    THEN [ok |-> TRUE, isObject |-> TRUE, fields |-> m.fields]
    ELSE ParseFail))

parseText(t) ==
    With(skipWs(t, 1), LAMBDA i :
    IF i > Len(t) THEN ParseFail
    ELSE IF t[i] = "{" THEN parseObject(t, i)
    ELSE IF t[i] = QUOTE THEN
        With(parseString(t, i), LAMBDA s :
        IF s.ok /\ skipWs(t, s.next) > Len(t)
        THEN [ok |-> TRUE, isObject |-> FALSE, fields |-> <<>>]
        ELSE ParseFail)
    ELSE ParseFail)

JSONparse(text) == With(text, LAMBDA t : parseText(t))

\* Property access event[key] on a parsed value: the last member of that
\* name, or V_undefined's marker when there is none.
Undefined == <<"<undefined>">>

Get(ev, key) ==
    With(ev.fields, LAMBDA fs :
    With({i \in 1..Len(fs) : fs[i][1] = key}, LAMBDA at :
    IF at = {} THEN Undefined
    ELSE fs[CHOOSE i \in at : \A j \in at : j <= i][2]))

\* The text JavaScript's += appends for a value: the string itself, or the
\* nine characters "undefined".
ToText(v) == IF v = Undefined THEN V_undefined ELSE v

\* json.dumps / JSON.stringify of a string: quoted, with ", \ and line feed
\* escaped.
escapeChar(c) ==
    CASE c = QUOTE -> <<BACKSLASH, QUOTE>>
      [] c = BACKSLASH -> <<BACKSLASH, BACKSLASH>>
      [] c = LF -> <<BACKSLASH, "n">>
      [] OTHER -> <<c>>

escapeChars(s) == Concat([i \in 1..Len(s) |-> escapeChar(s[i])])

dumpsString(s) == <<QUOTE>> \o escapeChars(s) \o <<QUOTE>>

\* json.dumps of a dict given as <<key, value>> pairs, with the default
\* separators ", " and ": ".
dumpsMember(f) == dumpsString(f[1]) \o <<":", SPACE>> \o dumpsString(f[2])

dumpsMembers(fs) ==
    Concat([i \in 1..Len(fs) |->
        (IF i > 1 THEN <<",", SPACE>> ELSE <<>>) \o dumpsMember(fs[i])])

dumps(fs) == <<"{">> \o dumpsMembers(fs) \o <<"}">>

\* The server's SSE frame of one event.
format_sse(fs) == DATA_PREFIX \o dumps(fs) \o <<LF, LF>>


(***************************************************************************)
(* Upstream events and the response body they are framed into              *)
(***************************************************************************)
\* Bound: the number of frames of one upstream response body.
MaxFrames == 2

\* The events the upstream agent may emit, as the dicts json.dumps is given.
EvRunStarted == <<<<K_type, RUN_STARTED>>>>
EvRunFinished == <<<<K_type, RUN_FINISHED>>>>
EvStart == <<<<K_type, TEXT_MESSAGE_START>>>>
EvContent(d) == <<<<K_type, TEXT_MESSAGE_CONTENT>>, <<K_delta, d>>>>
EvCustom == <<<<K_type, CUSTOM>>>>
EvEnd == <<<<K_type, TEXT_MESSAGE_END>>>>

EventCatalog ==
    << EvStart, EvContent(<<"a">>), EvContent(<<QUOTE>>), EvRunFinished,
       EvCustom, EvEnd >>

EventIds == 1..Len(EventCatalog)

\* A frame whose payload is not JSON: a content event cut short before its
\* closing brace.
TruncatedPayload ==
    LET j == dumps(EvContent(<<"a">>)) IN SubSeq(j, 1, Len(j) - 1)

MALFORMED == Len(EventCatalog) + 1

\* What may be framed into a body: a catalogued event or the malformed frame.
FrameIds == EventIds \cup {MALFORMED}

\* The frame of each frame id.
FrameCatalog ==
    [i \in FrameIds |->
        IF i = MALFORMED THEN DATA_PREFIX \o TruncatedPayload \o <<LF, LF>>
        ELSE format_sse(EventCatalog[i])]

\* The response body of a sequence of event ids: its frames, concatenated.
RECURSIVE Wire(_)
Wire(es) == IF es = <<>> THEN <<>> ELSE FrameCatalog[Head(es)] \o Wire(Tail(es))

\* The offsets at which a frame of the body ends.
RECURSIVE FrameEnds(_)
FrameEnds(es) ==
    IF es = <<>> THEN {}
    ELSE FrameEnds(SubSeq(es, 1, Len(es) - 1)) \cup {Len(Wire(es))}

(***************************************************************************)
(* State                                                                   *)
(***************************************************************************)
VARIABLES
    who,              \* the decode loop under way: "forward" or "home"
    events,           \* the event ids framed into the response body
    wire,             \* the bytes of the response body
    ends,             \* the offsets of wire at which a frame ends
    pos,              \* bytes of the body already returned by reader.read()
    cut,              \* the one read that ended inside a frame: [frame, where]
    fullResponse,     \* forwardToAGUIServer: let fullResponse
    fwdPc,            \* forwardToAGUIServer: "reading", "returned" or "threw"
    assistantMessage, \* Home.sendMessage: let assistantMessage
    messages,         \* Home: the messages state
    homePc,           \* Home.sendMessage: "reading", "done" or "threw"
    log,              \* the events the running loop parsed and dispatched
    reads,            \* the number of chunks reader.read() has returned
    closed,           \* the producer of the body has closed the stream
    responseText,     \* handleDirectRequest: const responseText
    bodyThreadId,     \* handleDirectRequest: body.threadId
    fwdThreadId,      \* the thread id passed to forwardToAGUIServer
    threadId,         \* handleDirectRequest: const threadId
    runId,            \* handleDirectRequest: const runId
    messageId,        \* handleDirectRequest: const messageId
    index,            \* handleDirectRequest: let index
    bridgePc,         \* handleDirectRequest: "idle", "start", "streaming", "closed"
    now,              \* the last reading of Date.now()
    socket,           \* readyState of the client's WebSocket
    wsRequests,       \* the run requests sent over the socket
    wsSent,           \* the messages the server sent over the socket
    wsPos,            \* how many of them were dispatched to ws.onmessage
    srvPhase,         \* the server: "idle", "run", "message" or "finished"
    srvOpened,        \* the server: text messages started so far
    obs,              \* WebSocketAgent.run: the observer, "active" till error/complete
    delivered,        \* the events passed by observer.next to the subscriber
    chatMessages,     \* ChatInterface: the messages state
    isTyping,         \* ChatInterface: the isTyping state
    currentStreamingMessageRef,  \* ChatInterface: the ref's current
    isConnected,      \* ChatInterface: the isConnected state
    connectionStatus, \* ChatInterface: the connectionStatus state
    memory,           \* the agent: self.memory, thread id -> document
    stream,           \* the events the last run yielded
    raised,           \* the last run's generator raised
    runThread,        \* the thread id of the last run
    runs,             \* the runs so far
    clientState,      \* AGUIClient: self.state, for the client of each thread
    clientPos,        \* how many events of the last run the client handled
    clientRaised,     \* the client's handler raised
    caller,           \* the handler that called forwardToAGUIServer
    fwdResult,        \* what forwardToAGUIServer returned
    downstream,       \* the events handleDirectRequest has streamed
    gqlStatus,        \* the status code of handleGraphQLRequest's response
    websocket,        \* WebSocketAgent with two runs: this.websocket, a socket id or 0
    sockets,          \* the WebSocket objects the agent has created, by id
    subscriptions,     \* the two run() subscriptions: [pc, obs, delivered]
    current_tool_call, \* AdvancedAGUIClient: self.current_tool_call
    tool_results,     \* AdvancedAGUIClient: self.tool_results
    toolLog,          \* the tool-call events _process_events was given
    loading,          \* Home: the loading state
    input             \* Home: the input state

decodeVars ==
    <<who, events, wire, ends, pos, cut, fullResponse, fwdPc, assistantMessage,
      messages, homePc, log, reads, closed>>

bridgeVars ==
    <<responseText, bodyThreadId, fwdThreadId, threadId, runId, messageId,
      index, bridgePc>>

wsVars ==
    <<socket, wsRequests, wsSent, wsPos, srvPhase, srvOpened, obs, delivered,
      chatMessages, isTyping, currentStreamingMessageRef, isConnected,
      connectionStatus>>

agentVars ==
    <<memory, stream, raised, runThread, runs, clientState, clientPos, clientRaised>>

callVars == <<caller, fwdResult, downstream, gqlStatus>>
overlapVars == <<websocket, sockets, subscriptions>>

toolVars == <<current_tool_call, tool_results, toolLog>>
pageVars == <<loading, input>>

vars ==
    <<decodeVars, bridgeVars, wsVars, now, agentVars, callVars, overlapVars, toolVars,
      pageVars>>

(***************************************************************************)
(* forwardToAGUIServer: the body of the for loop over the lines of a chunk *)
(***************************************************************************)
\* The try block of one 'data: ' line (route.ts 81-84) on the loop state
\* st = [fullResponse, log, thrown].
fwdTry(st, line) ==
    With(JSONparse(slice(line, 6)), LAMBDA event :
    IF ~event.ok THEN [st EXCEPT !.thrown = TRUE]
    ELSE IF Get(event, K_type) = TEXT_MESSAGE_CONTENT
    THEN [st EXCEPT !.fullResponse = @ \o ToText(Get(event, K_delta)),
                    !.log = Append(@, event.fields)]
    ELSE [st EXCEPT !.log = Append(@, event.fields)])

\* A catch block that lets the SyntaxError escape the loop.
fwdRethrow(st, r) == r

\* The catch block (route.ts 85-87): the error is dropped with the line.
fwdCatch(st, r) == st

fwdLine(st, line) ==
    IF startsWith(line, DATA_PREFIX)
    THEN With(fwdTry(st, line), LAMBDA r :
         IF r.thrown THEN fwdCatch(st, r) ELSE r)
    ELSE st

\* The for loop over the lines of a chunk, from line i on.
RECURSIVE fwdLines(_, _, _)
fwdLines(st, lines, i) ==
    IF i > Len(lines) \/ st.thrown THEN st
    ELSE With(fwdLine(st, lines[i]), LAMBDA s : fwdLines(s, lines, i + 1))

\* One iteration of the while loop (route.ts 75-89) on a chunk.
fwdChunk(st, chunk) ==
    With(split(chunk), LAMBDA lines : fwdLines(st, lines, 1))

(***************************************************************************)
(* Home.sendMessage: the body of the for loop over the lines of a chunk    *)
(***************************************************************************)
ASSIST_ID == <<"a","s","s","i","s","t","_">>
ROLE_USER == <<"u","s","e","r">>

\* JavaScript's a || b on texts: b when a is undefined or empty.
OrElse(a, b) == IF a = Undefined \/ a = <<>> THEN b ELSE a

\* setMessages updater of TEXT_MESSAGE_CONTENT (part_001 81-93).
homeSetContent(msgs, event, content) ==
    IF msgs # <<>> /\ msgs[Len(msgs)].role = V_assistant
    THEN [msgs EXCEPT ![Len(msgs)].content = content]
    ELSE Append(msgs, [id |-> OrElse(Get(event, K_messageId), ASSIST_ID),
                       role |-> V_assistant, content |-> content])

\* setMessages updater of TEXT_MESSAGE_START (part_001 96-100).
homeSetStart(msgs, event) ==
    Append(msgs, [id |-> OrElse(Get(event, K_message_id), ASSIST_ID),
                  role |-> V_assistant, content |-> <<>>])

\* The try block of one 'data: ' line (part_001 70-105) on the loop state
\* st = [assistantMessage, messages, log, thrown].
homeTry(st, line) ==
    LET jsonData == slice(line, 6) IN
    IF trim(jsonData) = <<>> THEN st
    ELSE With(JSONparse(jsonData), LAMBDA event :
    IF ~event.ok THEN [st EXCEPT !.thrown = TRUE]
    ELSE IF Get(event, K_type) = TEXT_MESSAGE_CONTENT THEN
        With(st.assistantMessage \o ToText(Get(event, K_delta)), LAMBDA am :
        [st EXCEPT !.assistantMessage = am,
                   !.messages = homeSetContent(@, event, am),
                   !.log = Append(@, event.fields)])
    ELSE IF Get(event, K_type) = TEXT_MESSAGE_START THEN
        [st EXCEPT !.assistantMessage = <<>>,
                   !.messages = homeSetStart(@, event),
                   !.log = Append(@, event.fields)]
    ELSE [st EXCEPT !.log = Append(@, event.fields)])

\* A catch block that lets the SyntaxError escape the loop.
homeRethrow(st, r) == r

\* The catch block (part_001 106-109): logged and dropped.
homeCatch(st, r) == st

homeLine(st, line) ==
    IF startsWith(line, DATA_PREFIX)
    THEN With(homeTry(st, line), LAMBDA r :
         IF r.thrown THEN homeCatch(st, r) ELSE r)
    ELSE st

\* The for loop over the lines of a chunk, from line i on.
RECURSIVE homeLines(_, _, _)
homeLines(st, lines, i) ==
    IF i > Len(lines) \/ st.thrown THEN st
    ELSE With(homeLine(st, lines[i]), LAMBDA s : homeLines(s, lines, i + 1))

\* One iteration of the while loop (part_001 64-111) on a chunk.
homeChunk(st, chunk) ==
    With(split(chunk), LAMBDA lines : homeLines(st, lines, 1))

(***************************************************************************)
(* The decode loops reading a chunked response body                        *)
(***************************************************************************)
\* The user message sendMessage appended before the request (part_001 20-25).
UserMessage == [id |-> <<"u">>, role |-> ROLE_USER, content |-> <<"h","i">>]

RECURSIVE SeqsUpTo(_, _)
SeqsUpTo(S, n) ==
    IF n = 0 THEN {<<>>}
    ELSE LET shorter == SeqsUpTo(S, n - 1) IN
         shorter \cup {Append(q, x) : q \in {r \in shorter : Len(r) = n - 1}, x \in S}

NoCut == [frame |-> 0, where |-> "none"]

InitDecode ==
    /\ who \in {"forward", "home"}
    /\ events \in SeqsUpTo(FrameIds, MaxFrames) \ {<<>>}
    /\ wire = Wire(events)
    /\ ends = FrameEnds(events)
    /\ pos = 0
    /\ cut = NoCut
    /\ fullResponse = <<>>
    /\ fwdPc = IF who = "forward" THEN "reading" ELSE "idle"
    /\ assistantMessage = <<>>
    /\ messages = <<UserMessage>>
    /\ homePc = IF who = "home" THEN "reading" ELSE "idle"
    /\ log = <<>>
    /\ reads = 0
    /\ closed = TRUE

\* The frame of the body that holds offset n, and where in that frame a cut
\* after offset n falls: inside the "data: " prefix ("prefix"), between the
\* prefix and the payload ("head"), inside the JSON payload ("body"), or
\* after the payload, before or between the two line feeds ("tail").
FrameOf(n) == Cardinality({e \in ends : e < n}) + 1

FrameStart(k) ==
    IF k = 1 THEN 0 ELSE CHOOSE e \in ends : Cardinality({x \in ends : x < e}) = k - 2

CutAt(n) ==
    LET k == FrameOf(n)
        o == n - FrameStart(k)
        len == Len(FrameCatalog[events[k]]) IN
    [frame |-> k,
     where |-> IF o < Len(DATA_PREFIX) THEN "prefix"
               ELSE IF o = Len(DATA_PREFIX) THEN "head"
               ELSE IF o < len - 2 THEN "body"
               ELSE "tail"]

\* reader.read() returns the bytes up to offset n: up to the end of a frame,
\* or, once per body, up to any offset.
ChunkTo(n) ==
    /\ n \in (pos + 1)..Len(wire)
    /\ \/ n \in ends /\ cut' = cut
       \/ n \notin ends /\ cut = NoCut /\ cut' = CutAt(n)
    /\ pos' = n
    /\ reads' = reads + 1

\* forwardToAGUIServer, one turn of the while loop with done = false.
FwdRead ==
    /\ fwdPc = "reading"
    /\ \E n \in (pos + 1)..Len(wire) :
        /\ ChunkTo(n)
        /\ \E st \in {fwdChunk([fullResponse |-> fullResponse, log |-> log,
                                 thrown |-> FALSE],
                                SubSeq(wire, pos + 1, n))} :
           /\ fullResponse' = st.fullResponse
           /\ log' = st.log
           /\ fwdPc' = IF st.thrown THEN "threw" ELSE "reading"
    /\ UNCHANGED <<overlapVars, toolVars, pageVars, who, events, wire, ends, assistantMessage, messages, homePc,
                   closed, bridgeVars, wsVars, now, agentVars, callVars>>

\* The response forwardToAGUIServer makes up when no delta was accumulated
\* (route.ts 92), for agentType 'echo' and message 'hi'.
PROCESSED ==
    <<"e","c","h","o"," ","a","g","e","n","t"," ","p","r","o","c","e","s","s","e","d",
      ":"," ","h","i">>

\* The value forwardToAGUIServer returns after the loop (route.ts 92).
fwdReturn(full) == OrElse(full, PROCESSED)

\* forwardToAGUIServer, the turn with done = true: break and return.
FwdDone ==
    /\ fwdPc = "reading"
    /\ closed /\ pos = Len(wire)
    /\ fwdPc' = "returned"
    /\ fwdResult' = fwdReturn(fullResponse)
    /\ UNCHANGED <<overlapVars, toolVars, pageVars, who, events, wire, ends, pos, cut, fullResponse, assistantMessage,
                   messages, homePc, log, reads, closed, bridgeVars, wsVars, now, agentVars,
                   caller, downstream, gqlStatus>>

\* Home.sendMessage, one turn of the while loop with done = false.
HomeRead ==
    /\ homePc = "reading"
    /\ \E n \in (pos + 1)..Len(wire) :
        /\ ChunkTo(n)
        /\ \E st \in {homeChunk([assistantMessage |-> assistantMessage,
                                  messages |-> messages, log |-> log,
                                  thrown |-> FALSE],
                                 SubSeq(wire, pos + 1, n))} :
           /\ assistantMessage' = st.assistantMessage
           /\ messages' = st.messages
           /\ log' = st.log
           /\ homePc' = IF st.thrown THEN "threw" ELSE "reading"
    /\ UNCHANGED <<overlapVars, toolVars, pageVars, who, events, wire, ends, fullResponse, fwdPc, closed, bridgeVars, wsVars, now, agentVars,
                   callVars>>

\* Home.sendMessage, the turn with done = true: break, finally.
HomeDone ==
    /\ homePc = "reading"
    /\ closed /\ pos = Len(wire)
    /\ homePc' = "done"
    /\ loading' = FALSE
    /\ UNCHANGED <<overlapVars, toolVars, input, who, events, wire, ends, pos, cut, fullResponse, fwdPc,
                   assistantMessage, messages, log, reads, closed, bridgeVars, wsVars, now, agentVars,
                   callVars>>

(***************************************************************************)
(* handleDirectRequest: the bridge's own SSE stream of a response text     *)
(***************************************************************************)
\* Bound: the length of a response text.
MaxLen == 2

\* Bound: the readings of Date.now() are 1..MaxClock.
MaxClock == 2

Clock == 1..MaxClock

\* The characters a response text is made of.
Alphabet == {"a", QUOTE, BACKSLASH, LF}

\* Date.now() in a template literal.
NowText(t) == <<Digits[t + 1]>>

THREAD_ == <<"t","h","r","e","a","d","-">>
MSG_ == <<"m","s","g","-">>
RUN_ == <<"r","u","n","-">>
TEST_THREAD == <<"t","e","s","t","-","t","h","r","e","a","d">>

\* "${s}" in a template literal: the text between quotes, as it is.
rawString(s) == <<QUOTE>> \o s \o <<QUOTE>>

rawMember(f) == rawString(f[1]) \o <<":", SPACE>> \o rawString(f[2])

\* A frame written as a template literal (route.ts 284-298): the members
\* between braces, separated by ", ", with the values interpolated.
templateFrame(fs) ==
    DATA_PREFIX \o <<"{">>
    \o Concat([i \in 1..Len(fs) |->
            (IF i > 1 THEN <<",", SPACE>> ELSE <<>>) \o rawMember(fs[i])])
    \o <<"}", LF, LF>>

frameRunStarted(tid, rid) ==
    templateFrame(<< <<K_type, RUN_STARTED>>, <<K_thread_id, tid>>, <<K_run_id, rid>> >>)

frameMessageStart(mid) ==
    templateFrame(<< <<K_type, TEXT_MESSAGE_START>>, <<K_message_id, mid>>,
                     <<K_role, V_assistant>> >>)

frameMessageContent(mid, char) ==
    templateFrame(<< <<K_type, TEXT_MESSAGE_CONTENT>>, <<K_message_id, mid>>,
                     <<K_delta, <<char>> >> >>)

frameMessageEnd(mid) ==
    templateFrame(<< <<K_type, TEXT_MESSAGE_END>>, <<K_message_id, mid>> >>)

frameRunFinished(tid, rid) ==
    templateFrame(<< <<K_type, RUN_FINISHED>>, <<K_thread_id, tid>>, <<K_run_id, rid>> >>)

\* controller.enqueue of frames, one chunk each, on [wire, ends].
RECURSIVE enqueue(_, _, _)
enqueue(q, frames, i) ==
    IF i > Len(frames) THEN q
    ELSE With(q.wire \o frames[i], LAMBDA w :
         enqueue([wire |-> w, ends |-> q.ends \cup {Len(w)}], frames, i + 1))

\* The transport hands the reader whole chunks only.
Aligned == [frame |-> 0, where |-> "aligned"]

\* The texts over S of length 1..n.
Texts(S, n) == SeqsUpTo(S, n) \ {<<>>}

\* The bridge is not part of the system.
IdleBridge ==
    /\ responseText = <<>>
    /\ bodyThreadId = Undefined
    /\ fwdThreadId = <<>>
    /\ threadId = <<>>
    /\ runId = <<>>
    /\ messageId = <<>>
    /\ index = 0
    /\ bridgePc = "idle"

\* No decode loop is part of the system.
IdleDecode ==
    /\ events = <<>>
    /\ wire = <<>>
    /\ ends = {}
    /\ pos = 0
    /\ cut = Aligned
    /\ fullResponse = <<>>
    /\ fwdPc = "idle"
    /\ assistantMessage = <<>>
    /\ messages = <<>>
    /\ homePc = "idle"
    /\ log = <<>>
    /\ reads = 0
    /\ closed = FALSE

\* No WebSocket client is part of the system.
IdleWS ==
    /\ socket = "CLOSED"
    /\ wsRequests = <<>>
    /\ wsSent = <<>>
    /\ wsPos = 0
    /\ srvPhase = "idle"
    /\ srvOpened = 0
    /\ obs = "none"
    /\ delivered = <<>>
    /\ chatMessages = <<>>
    /\ isTyping = FALSE
    /\ currentStreamingMessageRef = <<>>
    /\ isConnected = FALSE
    /\ connectionStatus = "disconnected"

\* No agent of the tutorial is part of the system.
IdleAgents ==
    /\ memory = <<>>
    /\ stream = <<>>
    /\ raised = FALSE
    /\ runThread = "A"
    /\ runs = 0
    /\ clientState = <<>>
    /\ clientPos = 0
    /\ clientRaised = FALSE

\* No handler has called forwardToAGUIServer.
IdleCall ==
    /\ caller = "none"
    /\ fwdResult = Undefined
    /\ downstream = <<>>
    /\ gqlStatus = <<>>

\* No WebSocketAgent with two runs.
IdleOverlap ==
    /\ websocket = 0
    /\ sockets = <<>>
    /\ subscriptions = <<>>

\* No AdvancedAGUIClient.
IdleTools ==
    /\ current_tool_call = <<>>
    /\ tool_results = <<>>
    /\ toolLog = <<>>

\* The page outside sendMessage, or inside its read loop (loading was set
\* before the request, part_001 27).
IdlePage ==
    /\ loading = (homePc = "reading")
    /\ input = <<>>

(***************************************************************************)
(* forwardToAGUIServer and its callers                                     *)
(***************************************************************************)
\* The two texts forwardToAGUIServer returns for a failure (route.ts 63, 95),
\* the error being 'fetch failed'.
NO_RESPONSE ==
    <<"E","r","r","o","r",":"," ","N","o"," ","r","e","s","p","o","n","s","e"," ",
      "f","r","o","m"," ","A","G","-","U","I"," ","s","e","r","v","e","r">>

ERROR_CONNECTING ==
    <<"E","r","r","o","r"," ","c","o","n","n","e","c","t","i","n","g"," ","t","o",
      " ","A","G","-","U","I"," ","s","e","r","v","e","r",":"," ","T","y","p","e",
      "E","r","r","o","r",":"," ","f","e","t","c","h"," ","f","a","i","l","e","d">>

SUCCESS == <<"S","U","C","C","E","S","S">>

\* A handler has called forwardToAGUIServer, which awaits fetch (route.ts
\* 54-60); the upstream body is any sequence of frames, the empty one too.
InitUpstream ==
    /\ who = "forward"
    /\ events \in SeqsUpTo(FrameIds, MaxFrames)
    /\ wire = Wire(events)
    /\ ends = FrameEnds(events)
    /\ pos = 0
    /\ cut = NoCut
    /\ fullResponse = <<>>
    /\ fwdPc = "fetching"
    /\ assistantMessage = <<>>
    /\ messages = <<>>
    /\ homePc = "idle"
    /\ log = <<>>
    /\ reads = 0
    /\ closed = TRUE
    /\ caller \in {"direct", "graphql"}
    /\ fwdResult = Undefined
    /\ downstream = <<>>
    /\ gqlStatus = <<>>
    /\ IdleBridge
    /\ IdleWS
    /\ IdleAgents
    /\ IdleOverlap /\ IdleTools /\ IdlePage
    /\ now = 1

FwdFrame == <<overlapVars, toolVars, pageVars, who, events, wire, ends, pos, cut, fullResponse, assistantMessage,
              messages, homePc, log, reads, closed, bridgeVars, wsVars, now, agentVars,
              caller, downstream, gqlStatus>>

\* fetch resolves with a response that has a body (route.ts 54-67).
FetchResolves ==
    /\ fwdPc = "fetching"
    /\ fwdPc' = "reading"
    /\ UNCHANGED <<FwdFrame, fwdResult>>

\* fetch resolves with a response without a body (route.ts 62-64).
FetchNoBody ==
    /\ fwdPc = "fetching"
    /\ fwdPc' = "nobody"
    /\ fwdResult' = NO_RESPONSE
    /\ UNCHANGED FwdFrame

\* fetch rejects: the catch block (route.ts 93-96).
FetchRejects ==
    /\ fwdPc = "fetching"
    /\ fwdPc' = "caught"
    /\ fwdResult' = ERROR_CONNECTING
    /\ UNCHANGED FwdFrame

\* The events handleDirectRequest streams for the response text (route.ts
\* 284-298), as [type, delta].
directEvents(text) ==
    << [type |-> RUN_STARTED, delta |-> <<>>],
       [type |-> TEXT_MESSAGE_START, delta |-> <<>>] >>
    \o [i \in 1..Len(text) |->
            [type |-> TEXT_MESSAGE_CONTENT, delta |-> <<text[i]>>]]
    \o << [type |-> TEXT_MESSAGE_END, delta |-> <<>>],
          [type |-> RUN_FINISHED, delta |-> <<>>] >>

\* handleDirectRequest after forwardToAGUIServer returned (route.ts 270-305).
DirectRespond ==
    /\ caller = "direct"
    /\ fwdPc \in {"returned", "nobody", "caught"}
    /\ downstream = <<>>
    /\ downstream' = directEvents(fwdResult)
    /\ UNCHANGED <<overlapVars, toolVars, pageVars, decodeVars, bridgeVars, wsVars, now, agentVars, caller, fwdResult,
                   gqlStatus>>

\* handleGraphQLRequest after forwardToAGUIServer returned (route.ts 165-205).
GraphQLRespond ==
    /\ caller = "graphql"
    /\ fwdPc \in {"returned", "nobody", "caught"}
    /\ gqlStatus = <<>>
    /\ gqlStatus' = SUCCESS
    /\ UNCHANGED <<overlapVars, toolVars, pageVars, decodeVars, bridgeVars, wsVars, now, agentVars, caller, fwdResult,
                   downstream>>

\* handleDirectRequest after forwardToAGUIServer returned responseText
\* (route.ts 263-271), and the page waiting for the body (part_001 56-58).
InitBridge ==
    /\ who = "home"
    /\ events = <<>>
    /\ wire = <<>>
    /\ ends = {}
    /\ pos = 0
    /\ cut = Aligned
    /\ fullResponse = <<>>
    /\ fwdPc = "idle"
    /\ assistantMessage = <<>>
    /\ messages = <<UserMessage>>
    /\ homePc = "reading"
    /\ log = <<>>
    /\ reads = 0
    /\ closed = FALSE
    /\ responseText \in Texts(Alphabet, MaxLen)
    /\ bodyThreadId \in {Undefined, TEST_THREAD}
    /\ now \in Clock
    /\ fwdThreadId = OrElse(bodyThreadId, THREAD_ \o NowText(now))
    /\ threadId = <<>>
    /\ runId = <<>>
    /\ messageId = <<>>
    /\ index = 0
    /\ bridgePc = "start"
    /\ IdleWS
    /\ IdleAgents
    /\ IdleCall /\ IdleOverlap /\ IdleTools /\ IdlePage

\* route.ts 274-303: the ids are made and start(controller) enqueues the two
\* opening frames and sets the first timer.
DirectStart ==
    /\ bridgePc = "start"
    /\ \E t1 \in Clock, t2 \in Clock, t3 \in Clock :
        /\ now <= t1 /\ t1 <= t2 /\ t2 <= t3
        /\ now' = t3
        /\ \E mid \in {MSG_ \o NowText(t1)},
              tid \in {OrElse(bodyThreadId, THREAD_ \o NowText(t2))},
              rid \in {RUN_ \o NowText(t3)} :
            /\ messageId' = mid
            /\ threadId' = tid
            /\ runId' = rid
            /\ \E q \in {enqueue([wire |-> wire, ends |-> ends],
                                  <<frameRunStarted(tid, rid), frameMessageStart(mid)>>,
                                  1)} :
                wire' = q.wire /\ ends' = q.ends
    /\ index' = 0
    /\ bridgePc' = "streaming"
    /\ UNCHANGED <<overlapVars, toolVars, pageVars, who, events, pos, cut, fullResponse, fwdPc, assistantMessage,
                   messages, homePc, log, reads, closed, responseText,
                   bodyThreadId, fwdThreadId, wsVars, agentVars, callVars>>

\* The last character of a text, whatever the index.
charAtEnd(text, i) == text[Len(text)]

\* responseText[index] (route.ts 291), the index counted from 0.
charAt(text, i) == text[i + 1]

\* route.ts 289-301: streamContent, run by a timer.
StreamContent ==
    /\ bridgePc = "streaming"
    /\ IF index < Len(responseText)
       THEN /\ \E q \in {enqueue([wire |-> wire, ends |-> ends],
                                  <<frameMessageContent(messageId,
                                                        charAt(responseText, index))>>,
                                  1)} :
                wire' = q.wire /\ ends' = q.ends
            /\ index' = index + 1
            /\ UNCHANGED <<closed, bridgePc>>
       ELSE /\ \E q \in {enqueue([wire |-> wire, ends |-> ends],
                                  <<frameMessageEnd(messageId),
                                    frameRunFinished(threadId, runId)>>,
                                  1)} :
                wire' = q.wire /\ ends' = q.ends
            /\ closed' = TRUE
            /\ bridgePc' = "closed"
            /\ UNCHANGED index
    /\ UNCHANGED <<overlapVars, toolVars, pageVars, who, events, pos, cut, fullResponse, fwdPc, assistantMessage,
                   messages, homePc, log, reads, responseText, bodyThreadId,
                   fwdThreadId, threadId, runId, messageId, now, wsVars,
                   agentVars, callVars>>

(***************************************************************************)
(* The WebSocket server and the socket                                     *)
(***************************************************************************)
\* Bound: the messages the server sends over one socket.
MaxWsMessages == 6

\* Bound: the run requests ChatInterface sends.
MaxRequests == 2

\* Bound: the text messages the server starts.
MaxOpened == 2

\* The close code of a normal closure (WebSocketAgent.ts 70, 88, 96).
CODE_NORMAL == 1000

\* The close code of a connection lost without a close frame.
CODE_ABNORMAL == 1006

CloseCodes == {CODE_NORMAL, CODE_ABNORMAL}

\* A message that is not JSON.
GARBAGE == <<"o","o","p","s">>

\* The id and the delta of the n-th text message of the server.
messageIdOf(n) == <<"m", Digits[n + 1]>>
deltaOf(n) == <<LOWER[n]>>

\* A server message: the type of its event (or GARBAGE) and the number of
\* the request or of the text message it belongs to.
WsMessage(type, n) == [type |-> type, n |-> n]

\* The event of a server message, as the dict that is serialised.
WsFields(msg) ==
    IF msg.type \in {RUN_STARTED, RUN_FINISHED, RUN_ERROR}
    THEN << <<K_type, msg.type>>,
            <<K_thread_id, wsRequests[msg.n].thread_id>>,
            <<K_run_id, wsRequests[msg.n].run_id>> >>
    ELSE IF msg.type = TEXT_MESSAGE_START
    THEN << <<K_type, msg.type>>, <<K_message_id, messageIdOf(msg.n)>>,
            <<K_role, V_assistant>> >>
    ELSE IF msg.type = TEXT_MESSAGE_CONTENT
    THEN << <<K_type, msg.type>>, <<K_message_id, messageIdOf(msg.n)>>,
            <<K_delta, deltaOf(msg.n)>> >>
    ELSE << <<K_type, msg.type>>, <<K_message_id, messageIdOf(msg.n)>> >>

\* event.data of a server message.
WsText(msg) == IF msg.type = GARBAGE THEN GARBAGE ELSE dumps(WsFields(msg))

\* The requests the server has begun to answer.
RequestsTaken == Cardinality({i \in 1..Len(wsSent) : wsSent[i].type = RUN_STARTED})

\* Bound: the number of events of an unknown type the server sends over one
\* socket.
MaxCustom == 1

\* What the server may send next: [msg, phase, opened].  A run is RUN_STARTED,
\* text messages one after another (START, CONTENT..., END), then
\* RUN_FINISHED or RUN_ERROR; a content event of the last text message may
\* still follow the end of the run, a content event of the text message
\* before may arrive while the next one is open, and a message that is not
\* JSON or an event of a type the clients do not know may be sent at any time.
ServerChoices ==
    (IF srvPhase \in {"idle", "finished"} /\ RequestsTaken < Len(wsRequests)
     THEN {[msg |-> WsMessage(RUN_STARTED, RequestsTaken + 1), phase |-> "run",
            opened |-> srvOpened]}
     ELSE {})
    \cup
    (IF srvPhase = "run"
     THEN {[msg |-> WsMessage(t, RequestsTaken), phase |-> "finished",
            opened |-> srvOpened] : t \in {RUN_FINISHED, RUN_ERROR}}
          \cup (IF srvOpened < MaxOpened
                THEN {[msg |-> WsMessage(TEXT_MESSAGE_START, srvOpened + 1),
                       phase |-> "message", opened |-> srvOpened + 1]}
                ELSE {})
     ELSE {})
    \cup
    (IF srvPhase = "message"
     THEN {[msg |-> WsMessage(TEXT_MESSAGE_CONTENT, srvOpened), phase |-> "message",
            opened |-> srvOpened],
           [msg |-> WsMessage(TEXT_MESSAGE_END, srvOpened), phase |-> "run",
            opened |-> srvOpened]}
          \cup (IF srvOpened > 1
                THEN {[msg |-> WsMessage(TEXT_MESSAGE_CONTENT, srvOpened - 1),
                       phase |-> "message", opened |-> srvOpened]}
                ELSE {})
     ELSE {})
    \cup
    (IF srvPhase = "finished" /\ srvOpened > 0
     THEN {[msg |-> WsMessage(TEXT_MESSAGE_CONTENT, srvOpened), phase |-> "finished",
            opened |-> srvOpened]}
     ELSE {})
    \cup
    {[msg |-> WsMessage(GARBAGE, 0), phase |-> srvPhase, opened |-> srvOpened]}
    \cup
    (IF Cardinality({i \in 1..Len(wsSent) : wsSent[i].type = CUSTOM}) < MaxCustom
     THEN {[msg |-> WsMessage(CUSTOM, 0), phase |-> srvPhase, opened |-> srvOpened]}
     ELSE {})

\* The server sends a message over the open socket.
ServerSend ==
    /\ socket = "OPEN"
    /\ Len(wsSent) < MaxWsMessages
    /\ \E c \in ServerChoices :
        /\ wsSent' = Append(wsSent, c.msg)
        /\ srvPhase' = c.phase
        /\ srvOpened' = c.opened
    /\ UNCHANGED <<overlapVars, toolVars, pageVars, agentVars, decodeVars, bridgeVars, now, socket, wsRequests, wsPos, obs,
                   delivered, chatMessages, isTyping, currentStreamingMessageRef,
                   isConnected, connectionStatus, callVars>>

(***************************************************************************)
(* WebSocketAgent.run                                                      *)
(***************************************************************************)
\* The RunAgentInput of the run.
AgentInput == [thread_id |-> <<"t">>, run_id |-> <<"r">>]

\* The cleanup function of the observable (WebSocketAgent.ts 86-90), on
\* a = [obs, delivered, socket].
cleanup(a) == IF a.socket = "OPEN" THEN [a EXCEPT !.socket = "CLOSING"] ELSE a

\* observer.next, observer.error and observer.complete: an observer takes
\* notifications until its first error or complete, which end the
\* subscription and run the cleanup function.
observerNext(a, ev) ==
    IF a.obs = "active" THEN [a EXCEPT !.delivered = Append(@, ev)] ELSE a

observerError(a) ==
    IF a.obs = "active" THEN cleanup([a EXCEPT !.obs = "errored"]) ELSE a

observerComplete(a) ==
    IF a.obs = "active" THEN cleanup([a EXCEPT !.obs = "completed"]) ELSE a

\* The catch block of ws.onmessage (WebSocketAgent.ts 57-60).
agentCatch(a) == observerError(a)

\* ws.onmessage (WebSocketAgent.ts 52-61).
agentOnMessage(a, data) ==
    With(JSONparse(data), LAMBDA agentEvent :
    IF agentEvent.ok THEN observerNext(a, agentEvent.fields) ELSE agentCatch(a))

\* ws.onclose (WebSocketAgent.ts 68-75).
agentOnClose(a, code) ==
    IF code # CODE_NORMAL THEN observerError(a) ELSE observerComplete(a)

\* ensureConnection's onopen resolves and connectAndRun sends the input and
\* installs the handlers (WebSocketAgent.ts 22-25, 45-75).
AgentOnOpen ==
    /\ who = "agent"
    /\ socket = "CONNECTING"
    /\ socket' = "OPEN"
    /\ wsRequests' = Append(wsRequests, AgentInput)
    /\ UNCHANGED <<overlapVars, toolVars, pageVars, agentVars, decodeVars, bridgeVars, now, wsSent, wsPos, srvPhase, srvOpened,
                   obs, delivered, chatMessages, isTyping,
                   currentStreamingMessageRef, isConnected, connectionStatus, callVars>>

\* A message event of the socket, dispatched to ws.onmessage.
AgentOnMessage ==
    /\ who = "agent"
    /\ socket = "OPEN"
    /\ wsPos < Len(wsSent)
    /\ wsPos' = wsPos + 1
    /\ \E a \in {agentOnMessage([obs |-> obs, delivered |-> delivered,
                                 socket |-> socket],
                                WsText(wsSent[wsPos + 1]))} :
        /\ obs' = a.obs
        /\ delivered' = a.delivered
        /\ socket' = a.socket
    /\ UNCHANGED <<overlapVars, toolVars, pageVars, agentVars, decodeVars, bridgeVars, now, wsRequests, wsSent, srvPhase,
                   srvOpened, chatMessages, isTyping, currentStreamingMessageRef,
                   isConnected, connectionStatus, callVars>>

\* The close event of the socket: after the messages sent before the
\* connection went down, or, after the client's own close(1000), with that
\* code.
SocketCloses(code) ==
    /\ code \in CloseCodes
    /\ \/ socket = "OPEN" /\ wsPos = Len(wsSent)
       \/ socket = "CLOSING" /\ code = CODE_NORMAL

AgentOnClose ==
    /\ who = "agent"
    /\ \E code \in CloseCodes :
        /\ SocketCloses(code)
        /\ \E a \in {agentOnClose([obs |-> obs, delivered |-> delivered,
                                   socket |-> "CLOSED"], code)} :
            /\ obs' = a.obs
            /\ delivered' = a.delivered
            /\ socket' = a.socket
    /\ UNCHANGED <<overlapVars, toolVars, pageVars, agentVars, decodeVars, bridgeVars, now, wsRequests, wsSent, wsPos, srvPhase,
                   srvOpened, chatMessages, isTyping, currentStreamingMessageRef,
                   isConnected, connectionStatus, callVars>>

\* disconnect() (WebSocketAgent.ts 94-99): close(1000) on the socket.  On an
\* open socket the closing handshake starts; on a connecting one the
\* connection fails, ensureConnection rejects and connectAndRun's catch
\* block (77-80) passes the error to the observer.
agentDisconnect(a) ==
    IF a.socket = "OPEN" THEN [a EXCEPT !.socket = "CLOSING"]
    ELSE IF a.socket = "CONNECTING" THEN observerError([a EXCEPT !.socket = "CLOSED"])
    ELSE a

AgentDisconnect ==
    /\ who = "agent"
    /\ socket \in {"CONNECTING", "OPEN"}
    /\ \E a \in {agentDisconnect([obs |-> obs, delivered |-> delivered,
                                  socket |-> socket])} :
        /\ obs' = a.obs
        /\ delivered' = a.delivered
        /\ socket' = a.socket
    /\ UNCHANGED <<overlapVars, toolVars, pageVars, agentVars, decodeVars, bridgeVars, now, wsRequests, wsSent, wsPos,
                   srvPhase, srvOpened, chatMessages, isTyping,
                   currentStreamingMessageRef, isConnected, connectionStatus, callVars>>

\* The subscriber unsubscribes: the observer takes no more notifications
\* and the cleanup function runs (WebSocketAgent.ts 86-90).
agentUnsubscribe(a) ==
    IF a.obs = "active" THEN cleanup([a EXCEPT !.obs = "unsubscribed"]) ELSE a

AgentUnsubscribe ==
    /\ who = "agent"
    /\ obs = "active"
    /\ \E a \in {agentUnsubscribe([obs |-> obs, delivered |-> delivered,
                                   socket |-> socket])} :
        /\ obs' = a.obs
        /\ delivered' = a.delivered
        /\ socket' = a.socket
    /\ UNCHANGED <<overlapVars, toolVars, pageVars, agentVars, decodeVars, bridgeVars, now, wsRequests, wsSent, wsPos,
                   srvPhase, srvOpened, chatMessages, isTyping,
                   currentStreamingMessageRef, isConnected, connectionStatus, callVars>>

(***************************************************************************)
(* ChatInterface                                                           *)
(***************************************************************************)
\* The text typed in the input box.
INPUT == <<"h","i">>

ERROR == <<"E","R","R","O","R">>

\* prev.map of TEXT_MESSAGE_CONTENT (part_004 93-99).
chatSetContent(msgs, content) ==
    [i \in 1..Len(msgs) |->
        IF msgs[i].isStreaming /\ msgs[i].role = V_assistant
        THEN [msgs[i] EXCEPT !.content = content]
        ELSE msgs[i]]

\* prev.map of TEXT_MESSAGE_END (part_004 104-110).
chatSetEnd(msgs) ==
    [i \in 1..Len(msgs) |->
        IF msgs[i].isStreaming /\ msgs[i].role = V_assistant
        THEN [msgs[i] EXCEPT !.isStreaming = FALSE]
        ELSE msgs[i]]

\* A default case that ends the running state.
chatDefaultStopsTyping(c) == [c EXCEPT !.isTyping = FALSE]

\* The default case of the switch (part_004 123-124): logged only.
chatDefault(c) == c

\* handleWebSocketMessage (part_004 69-126) on c = [messages, isTyping, ref],
\* t being the reading of Date.now().
handleWebSocketMessage(c, data, t) ==
    With(Get(data, K_type), LAMBDA type :
    IF type = RUN_STARTED
    THEN [c EXCEPT !.isTyping = TRUE, !.ref = <<>>]
    ELSE IF type = TEXT_MESSAGE_START
    THEN [c EXCEPT !.messages =
            Append(@, [id |-> OrElse(Get(data, K_message_id), NowText(t)),
                       role |-> V_assistant, content |-> <<>>,
                       isStreaming |-> TRUE])]
    ELSE IF type = TEXT_MESSAGE_CONTENT
    THEN With(c.ref \o OrElse(Get(data, K_delta), <<>>), LAMBDA ref :
         [c EXCEPT !.ref = ref, !.messages = chatSetContent(@, ref)])
    ELSE IF type = TEXT_MESSAGE_END
    THEN [c EXCEPT !.messages = chatSetEnd(@)]
    ELSE IF type = RUN_FINISHED
    THEN [c EXCEPT !.isTyping = FALSE, !.ref = <<>>]
    ELSE IF type = ERROR
    THEN [c EXCEPT !.isTyping = FALSE]
    ELSE chatDefault(c))

\* The catch block of ws.onmessage (part_004 50-52): logged only.
chatCatch(c) == c

\* ws.onmessage (part_004 46-53).
chatOnMessage(c, text, t) ==
    With(JSONparse(text), LAMBDA data :
    IF data.ok THEN handleWebSocketMessage(c, data, t) ELSE chatCatch(c))

\* ws.onopen (part_004 40-44).
ChatOnOpen ==
    /\ who = "chat"
    /\ socket = "CONNECTING"
    /\ socket' = "OPEN"
    /\ isConnected' = TRUE
    /\ connectionStatus' = "connected"
    /\ UNCHANGED <<overlapVars, toolVars, pageVars, agentVars, decodeVars, bridgeVars, now, wsRequests, wsSent, wsPos, srvPhase,
                   srvOpened, obs, delivered, chatMessages, isTyping,
                   currentStreamingMessageRef, callVars>>

\* sendMessage (part_004 128-154) past its guard: the user message is added
\* and the run request sent; a message without isStreaming counts as not
\* streaming.
ChatSendMessage ==
    /\ who = "chat"
    /\ isConnected /\ ~isTyping
    /\ Cardinality({i \in 1..Len(chatMessages) : chatMessages[i].role = ROLE_USER})
            < MaxRequests
    /\ \E t1 \in Clock, t2 \in Clock, t3 \in Clock :
        /\ now <= t1 /\ t1 <= t2 /\ t2 <= t3
        /\ now' = t3
        /\ chatMessages' = Append(chatMessages,
                [id |-> NowText(t1), role |-> ROLE_USER, content |-> INPUT,
                 isStreaming |-> FALSE])
        /\ wsRequests' = Append(wsRequests,
                [thread_id |-> NowText(t2), run_id |-> NowText(t3)])
    /\ UNCHANGED <<overlapVars, toolVars, pageVars, agentVars, decodeVars, bridgeVars, socket, wsSent, wsPos, srvPhase,
                   srvOpened, obs, delivered, isTyping,
                   currentStreamingMessageRef, isConnected, connectionStatus, callVars>>

\* A message event of the socket, dispatched to ws.onmessage.
ChatOnMessage ==
    /\ who = "chat"
    /\ socket = "OPEN"
    /\ wsPos < Len(wsSent)
    /\ wsPos' = wsPos + 1
    /\ \E t \in Clock :
        /\ now <= t
        /\ now' = t
        /\ \E c \in {chatOnMessage([messages |-> chatMessages, isTyping |-> isTyping,
                                    ref |-> currentStreamingMessageRef],
                                   WsText(wsSent[wsPos + 1]), t)} :
            /\ chatMessages' = c.messages
            /\ isTyping' = c.isTyping
            /\ currentStreamingMessageRef' = c.ref
    /\ UNCHANGED <<overlapVars, toolVars, pageVars, agentVars, decodeVars, bridgeVars, socket, wsRequests, wsSent, srvPhase,
                   srvOpened, obs, delivered, isConnected, connectionStatus, callVars>>

\* ws.onclose (part_004 55-60).
ChatOnClose ==
    /\ who = "chat"
    /\ \E code \in CloseCodes : SocketCloses(code)
    /\ socket' = "CLOSED"
    /\ isConnected' = FALSE
    /\ connectionStatus' = "disconnected"
    /\ isTyping' = FALSE
    /\ UNCHANGED <<overlapVars, toolVars, pageVars, agentVars, decodeVars, bridgeVars, now, wsRequests, wsSent, wsPos, srvPhase,
                   srvOpened, obs, delivered, chatMessages,
                   currentStreamingMessageRef, callVars>>

\* The Reconnect button (part_004 256-264), shown while isConnected is
\* false, runs connectWebSocket (34-38); taken here once the socket before
\* has closed.  The new connection starts with no request pending, and the
\* messages sent so far stay on record.
ChatReconnect ==
    /\ who = "chat"
    /\ ~isConnected
    /\ socket = "CLOSED"
    /\ socket' = "CONNECTING"
    /\ connectionStatus' = "connecting"
    /\ srvPhase' = "idle"
    /\ wsRequests' = SubSeq(wsRequests, 1, RequestsTaken)
    /\ UNCHANGED <<overlapVars, toolVars, pageVars, agentVars, decodeVars, bridgeVars, now, wsSent, wsPos, srvOpened,
                   obs, delivered, chatMessages, isTyping,
                   currentStreamingMessageRef, isConnected, callVars>>

\* A WebSocketAgent whose run was subscribed to and is connecting
\* (WebSocketAgent.ts 20, 42-45), or a mounted ChatInterface that is
\* connecting (part_004 16-24, 34-38).
InitWS ==
    /\ who \in {"agent", "chat"}
    /\ IdleDecode
    /\ IdleBridge
    /\ now = 1
    /\ socket = "CONNECTING"
    /\ wsRequests = <<>>
    /\ wsSent = <<>>
    /\ wsPos = 0
    /\ srvPhase = "idle"
    /\ srvOpened = 0
    /\ obs = IF who = "agent" THEN "active" ELSE "none"
    /\ delivered = <<>>
    /\ chatMessages = <<>>
    /\ isTyping = FALSE
    /\ currentStreamingMessageRef = <<>>
    /\ isConnected = FALSE
    /\ connectionStatus = IF who = "chat" THEN "connecting" ELSE "disconnected"
    /\ IdleAgents
    /\ IdleCall /\ IdleOverlap /\ IdleTools /\ IdlePage

(***************************************************************************)
(* Python string methods used by the tutorial's agents and client          *)
(***************************************************************************)
letterAt(table, c) == {i \in 1..Len(table) : table[i] = c}

toLower(c) ==
    IF letterAt(UPPER, c) # {} THEN LOWER[CHOOSE i \in letterAt(UPPER, c) : TRUE] ELSE c

toUpper(c) ==
    IF letterAt(LOWER, c) # {} THEN UPPER[CHOOSE i \in letterAt(LOWER, c) : TRUE] ELSE c

isCased(c) == letterAt(LOWER, c) # {} \/ letterAt(UPPER, c) # {}

\* str.lower
lower(text) == With(text, LAMBDA t : [i \in 1..Len(t) |-> toLower(t[i])])

\* str.title: a letter is in upper case after a character that is not a
\* letter, in lower case after a letter.
title(text) ==
    With(text, LAMBDA t :
        [i \in 1..Len(t) |->
            IF i = 1 \/ ~isCased(t[i - 1]) THEN toUpper(t[i]) ELSE toLower(t[i])])

\* p occurs in t at offset i.
occursAt(t, p, i) == i + Len(p) - 1 <= Len(t) /\ SubSeq(t, i, i + Len(p) - 1) = p

\* p in t
contains(t, p) == \E i \in 1..(Len(t) + 1) : occursAt(t, p, i)

\* str.replace(p, r) from offset i on: every occurrence, left to right.
RECURSIVE replaceFrom(_, _, _, _)
replaceFrom(t, p, r, i) ==
    IF i > Len(t) THEN <<>>
    ELSE IF occursAt(t, p, i) THEN r \o replaceFrom(t, p, r, i + Len(p))
    ELSE <<t[i]>> \o replaceFrom(t, p, r, i + 1)

replace(text, p, r) == With(text, LAMBDA t : replaceFrom(t, p, r, 1))

\* str.strip
strip(text) == With(text, LAMBDA t : SubSeq(t, firstNonWs(t), lastNonWs(t)))

\* str.isdigit
isdigit(t) == t # <<>> /\ \A i \in 1..Len(t) : letterAt(Digits, t[i]) # {}

digitValue(c) == (CHOOSE i \in letterAt(Digits, c) : TRUE) - 1

\* int(t) of a text of digits.
RECURSIVE intFrom(_, _, _)
intFrom(t, i, acc) ==
    IF i > Len(t) THEN acc ELSE intFrom(t, i + 1, 10 * acc + digitValue(t[i]))

int(text) == With(text, LAMBDA t : intFrom(t, 1, 0))

(***************************************************************************)
(* State documents: Python values that JSON can carry                      *)
(***************************************************************************)
PyNone == [t |-> "none", v |-> <<>>]
PyBool(b) == [t |-> "bool", v |-> b]
PyInt(n) == [t |-> "int", v |-> n]
PyStr(s) == [t |-> "str", v |-> s]
PyList(l) == [t |-> "list", v |-> l]
\* A dict: a function from its keys, which are texts, to their values.
PyDict(f) == [t |-> "dict", v |-> f]

NoItems == [k \in {} |-> PyNone]
EmptyDict == PyDict(NoItems)

\* d[k] = x on the items of a dict.
setItem(f, k, x) == [y \in DOMAIN f \cup {k} |-> IF y = k THEN x ELSE f[y]]

\* A dict literal, from <<key, value>> pairs.
RECURSIVE itemsFrom(_, _)
itemsFrom(pairs, i) ==
    IF i = 0 THEN NoItems
    ELSE setItem(itemsFrom(pairs, i - 1), pairs[i][1], pairs[i][2])

dict(pairs) == PyDict(itemsFrom(pairs, Len(pairs)))

K_user_name == <<"u","s","e","r","_","n","a","m","e">>
K_preferences == <<"p","r","e","f","e","r","e","n","c","e","s">>
K_conversation_count ==
    <<"c","o","n","v","e","r","s","a","t","i","o","n","_","c","o","u","n","t">>
K_topics == <<"t","o","p","i","c","s">>
K_initialized == <<"i","n","i","t","i","a","l","i","z","e","d">>
K_theme == <<"t","h","e","m","e">>
K_tool_usage_count ==
    <<"t","o","o","l","_","u","s","a","g","e","_","c","o","u","n","t">>
K_calculation_history ==
    <<"c","a","l","c","u","l","a","t","i","o","n","_","h","i","s","t","o","r","y">>
V_dark == <<"d","a","r","k">>

\* The JSON Pointer of a path of keys.
RECURSIVE pointerFrom(_, _)
pointerFrom(keys, i) ==
    IF i > Len(keys) THEN <<>> ELSE <<"/">> \o keys[i] \o pointerFrom(keys, i + 1)

Pointer(keys) == pointerFrom(keys, 1)

(***************************************************************************)
(* AGUIClient: the JSON Patch reducer                                      *)
(***************************************************************************)
\* _parse_json_pointer (part_006 346-355).
parse_json_pointer(path) ==
    IF path = <<>> \/ path = <<"/">> THEN <<>>
    ELSE With(IF startsWith(path, <<"/">>) THEN split_slash(slice(path, 1))
              ELSE split_slash(path), LAMBDA parts :
         [i \in 1..Len(parts) |->
            replace(replace(parts[i], <<"~","1">>, <<"/">>), <<"~","0">>, <<"~">>)])

\* list.insert(index, value)
insert(l, idx, value) ==
    With(IF idx > Len(l) THEN Len(l) ELSE idx, LAMBDA at :
        SubSeq(l, 1, at) \o <<value>> \o SubSeq(l, at + 1, Len(l)))

\* A list with value put in front.
appendFront(l, value) == <<value>> \o l

\* list.append(value)
append(l, value) == Append(l, value)

\* The last step of _apply_json_patch_operation (part_006 371-385) on the
\* parent reached.
applyFinal(current, final_key, op, value) ==
    IF final_key = <<"-">> /\ current.t = "list"
    THEN PyList(append(current.v, value))
    ELSE IF isdigit(final_key) /\ current.t = "list"
    THEN With(int(final_key), LAMBDA idx :
         IF op = "add" THEN PyList(insert(current.v, idx, value))
         ELSE IF op = "replace" /\ idx < Len(current.v)
         THEN PyList([current.v EXCEPT ![idx + 1] = value])
         ELSE current)
    ELSE IF current.t = "dict"
    THEN PyDict(setItem(current.v, final_key, value))
    ELSE current

\* The walk to the parent (part_006 364-369) and the last step, from
\* parts[i] on: [node, raised].  An absent key of a dict is created as {} and
\* stays created; a parent that is no dict raises TypeError.
RECURSIVE applyAt(_, _, _, _, _)
applyAt(current, parts, i, op, value) ==
    IF i = Len(parts)
    THEN [node |-> applyFinal(current, parts[i], op, value), raised |-> FALSE]
    ELSE IF current.t = "dict"
    THEN With(IF parts[i] \in DOMAIN current.v THEN current.v[parts[i]] ELSE EmptyDict,
              LAMBDA child :
         With(applyAt(child, parts, i + 1, op, value), LAMBDA r :
            [node |-> PyDict(setItem(current.v, parts[i], r.node)),
             raised |-> r.raised]))
    ELSE [node |-> current, raised |-> TRUE]

\* _apply_json_patch_operation (part_006 357-385) on self.state.
apply_json_patch_operation(state, op, path_parts, value) ==
    IF path_parts = <<>>
    THEN [node |-> IF value.t = "dict" THEN value ELSE state, raised |-> FALSE]
    ELSE applyAt(state, path_parts, 1, op, value)

\* One turn of the loop of _handle_state_delta (part_006 333-344), on
\* [node, raised]; _remove_json_patch_path is not defined: AttributeError.
applyOperation(state, operation) ==
    With(parse_json_pointer(operation.path), LAMBDA path_parts :
    IF operation.op = "replace" \/ operation.op = "add"
    THEN apply_json_patch_operation(state, operation.op, path_parts, operation.value)
    ELSE IF operation.op = "remove"
    THEN [node |-> state, raised |-> TRUE]
    ELSE [node |-> state, raised |-> FALSE])

\* _handle_state_delta (part_006 328-344) from operation i on.
RECURSIVE handleDeltaFrom(_, _, _)
handleDeltaFrom(st, delta, i) ==
    IF i > Len(delta) \/ st.raised THEN st
    ELSE With(applyOperation(st.node, delta[i]), LAMBDA r :
         handleDeltaFrom(r, delta, i + 1))

handle_state_delta(state, delta) ==
    handleDeltaFrom([node |-> state, raised |-> FALSE], delta, 1)

(***************************************************************************)
(* The tutorial's agents: StateAgent, HybridAgent, RobustAgent             *)
(***************************************************************************)
\* Bound: the runs of one agent.
MaxRuns == 3

Threads == {"A", "B"}

RunIdOf(n) == <<"r", Digits[n + 1]>>

STATE_SNAPSHOT == <<"S","T","A","T","E","_","S","N","A","P","S","H","O","T">>
STATE_DELTA == <<"S","T","A","T","E","_","D","E","L","T","A">>

MY_NAME_IS == <<"m","y"," ","n","a","m","e"," ","i","s">>
PREFER == <<"p","r","e","f","e","r">>
DARK_MODE == <<"d","a","r","k"," ","m","o","d","e">>

\* The contents of the user messages of a run input.
Contents ==
    { <<"h","i">>,
      <<"M","y"," ","n","a","m","e"," ","i","s"," ","a","l">>,
      <<"I"," ","p","r","e","f","e","r"," ","d","a","r","k"," ","m","o","d","e">>,
      <<"I"," ","p","r","e","f","e","r"," ","t","e","a">> }

\* input.messages: no message, or one user message.
Inputs == {<<>>} \cup {<<[role |-> ROLE_USER, content |-> c]>> : c \in Contents}

\* The user messages of input.messages (part_006 185).
userMessages(msgs) == SelectSeq(msgs, LAMBDA msg : msg.role = ROLE_USER)

\* The events, as the event objects handed to _format_sse: the frame of an
\* event is made when it is yielded, so a snapshot holds the document as it
\* is at that moment.
RunStartedEvent(tid, rid) == [type |-> RUN_STARTED, thread_id |-> tid, run_id |-> rid]
RunFinishedEvent(tid, rid) == [type |-> RUN_FINISHED, thread_id |-> tid, run_id |-> rid]
RunErrorEvent(tid, rid) == [type |-> RUN_ERROR, thread_id |-> tid, run_id |-> rid]
StateSnapshotEvent(doc) == [type |-> STATE_SNAPSHOT, snapshot |-> doc]
StateDeltaEvent(ops) == [type |-> STATE_DELTA, delta |-> ops]

Operation(op, keys, value) == [op |-> op, path |-> Pointer(keys), value |-> value]

\* yield, on the run r = [memory, stream, raised].
emit(r, ev) == [r EXCEPT !.stream = Append(@, ev)]

\* One document for every thread: the item set in each of them.
rememberEveryThread(r, tid, key, value) ==
    [r EXCEPT !.memory = [x \in DOMAIN @ |-> PyDict(setItem(@[x].v, key, value))]]

\* self.memory[thread_id][key] = value, on the run r.
remember(r, tid, key, value) ==
    [r EXCEPT !.memory[tid] = PyDict(setItem(@.v, key, value))]

\* The truth value of a Python value.
truthy(x) ==
    CASE x.t = "none" -> FALSE
      [] x.t = "bool" -> x.v
      [] x.t = "int" -> x.v # 0
      [] OTHER -> DOMAIN x.v # {}

\* dict.get(key)
get(d, key) == IF key \in DOMAIN d.v THEN d.v[key] ELSE PyNone

\* The document of a new thread (part_006 199-205).
StateAgentMemory ==
    dict(<< <<K_user_name, PyNone>>, <<K_preferences, EmptyDict>>,
            <<K_conversation_count, PyInt(0)>>, <<K_topics, PyList(<<>>)>>,
            <<K_initialized, PyBool(FALSE)>> >>)

\* _ensure_thread_memory (part_006 196-205).
ensure_thread_memory(r, tid) ==
    IF tid \in DOMAIN r.memory THEN r
    ELSE [r EXCEPT !.memory = [x \in DOMAIN @ \cup {tid} |->
                                 IF x = tid THEN StateAgentMemory ELSE @[x]]]

\* _handle_name_setting (part_006 229-242).
handle_name_setting(r, tid, content) ==
    With(title(strip(replace(content, MY_NAME_IS, <<>>))), LAMBDA name :
    IF name = <<>> THEN r
    ELSE With(r.memory[tid].v[K_user_name], LAMBDA old_name :
         emit(remember(r, tid, K_user_name, PyStr(name)),
              StateDeltaEvent(<<Operation(IF truthy(old_name) THEN "replace" ELSE "add",
                                          <<K_user_name>>, PyStr(name))>>))))

\* _handle_preference_setting (part_006 244-258): pref_path is bound only
\* for 'dark mode'; without it the yield raises UnboundLocalError.
handle_preference_setting(r, tid, content) ==
    IF contains(content, DARK_MODE)
    THEN With(PyDict(setItem(r.memory[tid].v[K_preferences].v, K_theme, PyStr(V_dark))),
              LAMBDA prefs :
         emit(remember(r, tid, K_preferences, prefs),
              StateDeltaEvent(<<Operation("add", <<K_preferences, K_theme>>,
                                          PyStr(V_dark))>>)))
    ELSE [r EXCEPT !.raised = TRUE]

\* _process_user_message (part_006 207-227).
process_user_message(r, tid, message) ==
    With(lower(message.content), LAMBDA content :
    With(PyInt(r.memory[tid].v[K_conversation_count].v + 1), LAMBDA count :
    With(emit(remember(r, tid, K_conversation_count, count),
              StateDeltaEvent(<<Operation("replace", <<K_conversation_count>>, count)>>)),
         LAMBDA r1 :
    IF startsWith(content, MY_NAME_IS) THEN handle_name_setting(r1, tid, content)
    ELSE IF contains(content, PREFER) THEN handle_preference_setting(r1, tid, content)
    ELSE r1)))

\* part_006 182: self.memory[thread_id]["initialized"] = True
setInitialized(r, tid) == remember(r, tid, K_initialized, PyBool(TRUE))

\* StateAgent.run (part_006 160-194) on the agent's memory: the memory after
\* the run, the events yielded, and whether the generator raised.
stateAgentRun(memory0, tid, rid, msgs) ==
    With(ensure_thread_memory(
            emit([memory |-> memory0, stream |-> <<>>, raised |-> FALSE],
                 RunStartedEvent(tid, rid)), tid), LAMBDA r1 :
    With(IF ~truthy(get(r1.memory[tid], K_initialized))
         THEN setInitialized(emit(r1, StateSnapshotEvent(r1.memory[tid])), tid)
         ELSE r1, LAMBDA r2 :
    With(userMessages(msgs), LAMBDA user_messages :
    With(IF user_messages # <<>>
         THEN process_user_message(r2, tid, user_messages[Len(user_messages)])
         ELSE r2, LAMBDA r3 :
    IF r3.raised THEN r3 ELSE emit(r3, RunFinishedEvent(tid, rid))))))

\* The document of a new thread (AG-UI-Tutorial.md 1236-1241).
HybridAgentMemory ==
    dict(<< <<K_user_name, PyNone>>, <<K_tool_usage_count, PyInt(0)>>,
            <<K_calculation_history, PyList(<<>>)>>, <<K_preferences, EmptyDict>> >>)

\* HybridAgent.run (AG-UI-Tutorial.md 1228-1275).  Each of the four branches
\* awaits the async generator a helper returns, which raises TypeError
\* before the helper runs.
hybridAgentRun(memory0, tid, rid, msgs) ==
    With(IF tid \in DOMAIN memory0
         THEN [memory |-> memory0, stream |-> <<>>, raised |-> FALSE]
         ELSE [memory |-> [x \in DOMAIN memory0 \cup {tid} |->
                              IF x = tid THEN HybridAgentMemory ELSE memory0[x]],
               stream |-> <<StateSnapshotEvent(HybridAgentMemory)>>,
               raised |-> FALSE], LAMBDA r1 :
    With(emit(r1, RunStartedEvent(tid, rid)), LAMBDA r2 :
    IF userMessages(msgs) # <<>> THEN [r2 EXCEPT !.raised = TRUE]
    ELSE emit(r2, RunFinishedEvent(tid, rid))))

\* RobustAgent.run (AG-UI-Tutorial.md 1600-1627): the agent logic raises or
\* not; except yields RUN_ERROR, finally yields RUN_FINISHED.
robustAgentRun(memory0, tid, rid, logicRaises) ==
    With(emit([memory |-> memory0, stream |-> <<>>, raised |-> FALSE],
              RunStartedEvent(tid, rid)), LAMBDA r1 :
    With(IF logicRaises THEN emit(r1, RunErrorEvent(tid, rid)) ELSE r1, LAMBDA r2 :
    emit(r2, RunFinishedEvent(tid, rid))))

\* A run of the agent, once the events of the run before were handled.
RunBegins(r, tid) ==
    /\ clientPos = Len(stream)
    /\ runs < MaxRuns
    /\ memory' = r.memory
    /\ stream' = r.stream
    /\ raised' = r.raised
    /\ runThread' = tid
    /\ runs' = runs + 1
    /\ clientPos' = 0
    /\ UNCHANGED <<overlapVars, toolVars, pageVars, clientState, clientRaised, decodeVars, bridgeVars, wsVars, now, callVars>>

StateAgentRun ==
    /\ who = "state"
    /\ \E tid \in Threads, msgs \in Inputs :
        \E r \in {stateAgentRun(memory, tid, RunIdOf(runs + 1), msgs)} :
            RunBegins(r, tid)

HybridAgentRun ==
    /\ who = "hybrid"
    /\ \E tid \in Threads, msgs \in Inputs :
        \E r \in {hybridAgentRun(memory, tid, RunIdOf(runs + 1), msgs)} :
            RunBegins(r, tid)

RobustAgentRun ==
    /\ who = "robust"
    /\ \E tid \in Threads, logicRaises \in BOOLEAN :
        \E r \in {robustAgentRun(memory, tid, RunIdOf(runs + 1), logicRaises)} :
            RunBegins(r, tid)

\* The client of the run's thread handles the next event: a snapshot
\* replaces self.state (part_006 796-799), a delta goes to
\* _handle_state_delta (part_006 328-344); [node, raised].
\* dict.update: the items of the snapshot over those of the state.
snapshotUpdate(state, new_state) ==
    PyDict([k \in DOMAIN state.v \cup DOMAIN new_state.v |->
                IF k \in DOMAIN new_state.v THEN new_state.v[k] ELSE state.v[k]])

\* self.state = new_state (part_006 796-799).
snapshotReplace(state, new_state) == new_state

clientHandle(state, event) ==
    IF event.type = STATE_SNAPSHOT
    THEN [node |-> snapshotReplace(state, event.snapshot), raised |-> FALSE]
    ELSE IF event.type = STATE_DELTA
    THEN handle_state_delta(state, event.delta)
    ELSE [node |-> state, raised |-> FALSE]

ClientHandle ==
    /\ who \in {"state", "hybrid", "robust", "client"}
    /\ clientPos < Len(stream)
    /\ ~clientRaised
    /\ clientPos' = clientPos + 1
    /\ \E c \in {clientHandle(clientState[runThread], stream[clientPos + 1])} :
        /\ clientState' = [clientState EXCEPT ![runThread] = c.node]
        /\ clientRaised' = c.raised
    /\ UNCHANGED <<overlapVars, toolVars, pageVars, memory, stream, raised, runThread, runs, decodeVars, bridgeVars,
                   wsVars, now, callVars>>

(***************************************************************************)
(* The client's state document under arbitrary state events                *)
(***************************************************************************)
\* Bound: the state events a client receives.
MaxEvents == 2

ALICE == <<"A","l","i","c","e">>
MATH == <<"m","a","t","h">>
WEATHER == <<"w","e","a","t","h","e","r">>

\* The documents a client starts from.
Documents ==
    { EmptyDict,
      dict(<< <<K_topics, PyList(<<PyStr(WEATHER)>>)>> >>),
      dict(<< <<K_user_name, PyStr(WEATHER)>>,
              <<K_preferences, dict(<< <<K_theme, PyStr(V_dark)>> >>)>> >>),
      dict(<< <<K_user_name, PyNone>>, <<K_topics, PyList(<<>>)>>,
              <<K_conversation_count, PyInt(1)>> >>) }

\* The values of the operations.
Values == {PyStr(ALICE), PyStr(MATH), dict(<< <<K_theme, PyStr(V_dark)>> >>)}

\* The paths of the operations, as JSON Pointers: a key of the document, the
\* end of an array, an index in or beyond an array, a key of a nested
\* object, the key "" of the document, keys under a value that is no
\* container, and a key under an object that is missing.
Paths ==
    { Pointer(<<K_user_name>>),
      Pointer(<<K_topics, <<"-">> >>),
      Pointer(<<K_topics, <<"0">> >>),
      Pointer(<<K_topics, <<"5">> >>),
      Pointer(<<K_preferences, K_theme>>),
      Pointer(<< <<>> >>),
      Pointer(<<K_user_name, K_theme>>),
      Pointer(<<K_user_name, K_theme, K_theme>>),
      Pointer(<<K_initialized, K_theme>>) }

Operations ==
    {[op |-> o, path |-> p, value |-> v] : o \in {"add", "replace"}, p \in Paths,
                                           v \in Values}

\* The deltas: one operation, or an add of a key of the document followed
\* by any operation.
Deltas ==
    {<<o>> : o \in Operations}
    \cup {<<[op |-> "add", path |-> Pointer(<<K_user_name>>), value |-> PyStr(ALICE)],
            o>> : o \in Operations}

\* The state events a client may receive.
ClientEvents ==
    {StateSnapshotEvent(d) : d \in Documents} \cup {StateDeltaEvent(d) : d \in Deltas}

\* A client with some document, and no agent.
InitReducer ==
    /\ who = "client"
    /\ IdleDecode
    /\ IdleBridge
    /\ IdleWS
    /\ IdleCall /\ IdleOverlap /\ IdleTools /\ IdlePage
    /\ now = 1
    /\ memory = <<>>
    /\ stream = <<>>
    /\ raised = FALSE
    /\ runThread = "A"
    /\ runs = 0
    /\ \E d \in Documents : clientState = [x \in Threads |-> IF x = "A" THEN d ELSE EmptyDict]
    /\ clientPos = 0
    /\ clientRaised = FALSE

\* A state event arrives for the client, once it has handled the one before.
ClientReceives ==
    /\ who = "client"
    /\ clientPos = Len(stream)
    /\ Len(stream) < MaxEvents
    /\ ~clientRaised
    /\ \E ev \in ClientEvents : stream' = Append(stream, ev)
    /\ UNCHANGED <<overlapVars, toolVars, pageVars, memory, raised, runThread, runs, clientState, clientPos, clientRaised,
                   decodeVars, bridgeVars, wsVars, now, callVars>>

\* A new agent (part_006 155-158) and, for each thread, a new client.
InitAgents ==
    /\ who \in {"state", "hybrid", "robust"}
    /\ IdleDecode
    /\ IdleBridge
    /\ IdleWS
    /\ now = 1
    /\ memory = [x \in {} |-> EmptyDict]
    /\ stream = <<>>
    /\ raised = FALSE
    /\ runThread = "A"
    /\ runs = 0
    /\ clientState = [x \in Threads |-> EmptyDict]
    /\ clientPos = 0
    /\ clientRaised = FALSE
    /\ IdleCall /\ IdleOverlap /\ IdleTools /\ IdlePage

(***************************************************************************)
(* Specifications                                                          *)
(***************************************************************************)
\* A decode loop reading an upstream body in chunks.
Init ==
    InitDecode /\ IdleBridge /\ IdleWS /\ IdleAgents /\ IdleCall /\ IdleOverlap /\ IdleTools
        /\ IdlePage /\ now = 1

Next == FwdRead \/ FwdDone \/ HomeRead \/ HomeDone

Spec == Init /\ [][Next]_vars

\* The page reading the body handleDirectRequest streams.
NextBridge == DirectStart \/ StreamContent \/ HomeRead \/ HomeDone

SpecBridge == InitBridge /\ [][NextBridge]_vars

\* A WebSocket client, the server and the socket between them.
NextWS ==
    \/ ServerSend
    \/ AgentOnOpen \/ AgentOnMessage \/ AgentOnClose
    \/ AgentDisconnect \/ AgentUnsubscribe
    \/ ChatOnOpen \/ ChatSendMessage \/ ChatOnMessage \/ ChatOnClose
    \/ ChatReconnect

SpecWS == InitWS /\ [][NextWS]_vars

\* forwardToAGUIServer called by handleDirectRequest or handleGraphQLRequest.
NextUpstream ==
    \/ FetchResolves \/ FetchNoBody \/ FetchRejects
    \/ FwdRead \/ FwdDone
    \/ DirectRespond \/ GraphQLRespond

SpecUpstream == InitUpstream /\ [][NextUpstream]_vars

\* A client and the state events it receives.
NextReducer == ClientReceives \/ ClientHandle

SpecReducer == InitReducer /\ [][NextReducer]_vars

\* An agent of the tutorial and the clients of its threads.
NextAgents == StateAgentRun \/ HybridAgentRun \/ RobustAgentRun \/ ClientHandle

SpecAgents == InitAgents /\ [][NextAgents]_vars


(***************************************************************************)
(* Properties of the decode loops                                          *)
(***************************************************************************)
Done == fwdPc = "returned" \/ homePc = "done"
Threw == fwdPc = "threw" \/ homePc = "threw"

\* Every frame of the body is the frame of an event.
ValidBody == \A i \in 1..Len(events) : events[i] \in EventIds

\* The number of frames wholly returned by the reads so far.
FramesRead == Cardinality({e \in ends : e <= pos})

\* The events of the first k frames, those in skip and the malformed left out.
RECURSIVE EventsOf(_, _, _)
EventsOf(es, k, skip) ==
    IF k = 0 THEN <<>>
    ELSE EventsOf(es, k - 1, skip)
         \o (IF k \in skip \/ es[k] = MALFORMED THEN <<>>
             ELSE <<EventCatalog[es[k]]>>)

IsContent(fs) == fs[1] = <<K_type, TEXT_MESSAGE_CONTENT>>
IsStart(fs) == fs[1] = <<K_type, TEXT_MESSAGE_START>>
IsTerminal(fs) == fs[1] \in {<<K_type, RUN_FINISHED>>, <<K_type, RUN_ERROR>>}
DeltaOf(fs) == fs[Len(fs)][2]

\* The deltas of the content events of a log, concatenated.
RECURSIVE DeltasOf(_)
DeltasOf(l) ==
    IF l = <<>> THEN <<>>
    ELSE (IF IsContent(Head(l)) THEN DeltaOf(Head(l)) ELSE <<>>) \o DeltasOf(Tail(l))

\* The deltas of the content events after the last start event of a log.
RECURSIVE DeltasSinceStart(_)
DeltasSinceStart(l) ==
    IF l = <<>> THEN <<>>
    ELSE IF IsStart(l[Len(l)]) THEN <<>>
    ELSE DeltasSinceStart(SubSeq(l, 1, Len(l) - 1))
         \o (IF IsContent(l[Len(l)]) THEN DeltaOf(l[Len(l)]) ELSE <<>>)

\* C2: when every read ends at the end of a frame of a valid body, the loop
\* has dispatched exactly the events of the frames read so far, each once
\* and in the order of the frames, and the accumulated text is the
\* concatenation of their deltas.
C2_FrameAlignedChunksDecodeAll ==
    (ValidBody /\ cut = NoCut) =>
        /\ log = EventsOf(events, FramesRead, {})
        /\ ~Threw
        /\ who = "forward" => fullResponse = DeltasOf(log)
        /\ who = "home" => assistantMessage = DeltasSinceStart(log)

\* A body of two or more frames returned by one read and decoded to the end.
C2_Witness ==
    /\ ValidBody /\ cut = NoCut /\ Done
    /\ reads = 1 /\ Len(events) >= 2 /\ Len(log) = Len(events)

\* C5: when one read of a valid body ends inside the JSON payload of a frame
\* and every other read ends at the end of a frame, the loop dispatches the
\* events of all the other frames, in order, dispatches nothing for the
\* split frame, and does not stop.
C5_SplitPayloadDropsOnlyThatFrame ==
    (ValidBody /\ cut.where = "body") =>
        /\ log = EventsOf(events, FramesRead, {cut.frame})
        /\ ~Threw

\* The first frame was split inside its payload and a later frame decoded.
C5_Witness ==
    /\ ValidBody /\ cut.where = "body" /\ cut.frame = 1 /\ Done
    /\ Len(events) >= 2 /\ Len(log) = Len(events) - 1

\* C6: when no read of a valid body ends inside a JSON payload, the loop has
\* dispatched, at the end of the body, the events of all the frames in order.
C6_SplitsOutsidePayloadDecodeAll ==
    (ValidBody /\ cut.where # "body" /\ Done) =>
        log = EventsOf(events, Len(events), {})

\* C7: the loops never stop on a 'data: ' line that is not JSON: the line is
\* skipped, the accumulated text is that of the dispatched events alone, and
\* the events of the well-formed frames around it are dispatched.
C7_MalformedLineSkipped ==
    /\ ~Threw
    /\ who = "forward" => fullResponse = DeltasOf(log)
    /\ who = "home" => assistantMessage = DeltasSinceStart(log)
    /\ cut = NoCut => log = EventsOf(events, FramesRead, {})

\* A malformed frame and a content frame after it, returned by one read: the
\* content event is dispatched and the loop ran to the end.
C7_Witness ==
    /\ Done /\ reads = 1 /\ Len(events) = 2
    /\ events[1] = MALFORMED /\ events[2] \in EventIds
    /\ Len(log) = 1 /\ IsContent(log[1])

(***************************************************************************)
(* Properties of the bridge's stream                                       *)
(***************************************************************************)
\* C4: when the page has read to the end the stream handleDirectRequest
\* emitted for responseText, the text it accumulated and the content of the
\* assistant message it shows are responseText.
C4_RoundTrip ==
    (bridgePc = "closed" /\ homePc = "done") =>
        /\ assistantMessage = responseText
        /\ messages[Len(messages)].role = V_assistant
        /\ messages[Len(messages)].content = responseText

(***************************************************************************)
(* Properties of the WebSocket clients                                     *)
(***************************************************************************)
\* The events of the first k messages sent, those that are not JSON left out.
RECURSIVE EventsSent(_)
EventsSent(k) ==
    IF k = 0 THEN <<>>
    ELSE EventsSent(k - 1)
         \o (IF wsSent[k].type = GARBAGE THEN <<>> ELSE <<WsFields(wsSent[k])>>)

\* The deltas of text message n dispatched so far, from its start to its end.
ContentSent(n) ==
    Concat([k \in 1..wsPos |->
        IF /\ wsSent[k] = WsMessage(TEXT_MESSAGE_CONTENT, n)
           /\ \A j \in 1..k : wsSent[j] # WsMessage(TEXT_MESSAGE_END, n)
        THEN deltaOf(n) ELSE <<>>])

\* C3: the content ChatInterface shows for each text message of the server
\* is the concatenation of the deltas of that message, in order, and holds
\* no delta of another message.
C3_AccumulatorPerMessage ==
    who = "chat" =>
        \A i \in 1..Len(chatMessages) : \A n \in 1..MaxOpened :
            (chatMessages[i].role = V_assistant /\ chatMessages[i].id = messageIdOf(n))
                => chatMessages[i].content = ContentSent(n)

\* C8: as long as the socket has not closed, a message that is not JSON
\* does not put the observer of WebSocketAgent.run in the error state, and
\* an observer still subscribed has been passed every event dispatched so
\* far.
C8_NonJsonSkippedByAgent ==
    (who = "agent" /\ socket # "CLOSED") =>
        /\ obs # "errored"
        /\ obs = "active" => delivered = EventsSent(wsPos)

\* C10: once RUN_FINISHED or RUN_ERROR has been passed to the observer of
\* WebSocketAgent.run, the observable is complete and that event is the last
\* one the observer was passed.
C10_TerminalEndsTheRun ==
    who = "agent" =>
        \A k \in 1..Len(delivered) :
            IsTerminal(delivered[k]) => obs = "completed" /\ k = Len(delivered)

\* C11: a run of WebSocketAgent whose observer was passed neither
\* RUN_FINISHED nor RUN_ERROR never completes cleanly, whatever the close
\* code of the socket.
C11_CloseBeforeTerminalIsError ==
    (who = "agent" /\ \A k \in 1..Len(delivered) : ~IsTerminal(delivered[k]))
        => obs # "completed"

(***************************************************************************)
(* Properties of the agents' runs                                          *)
(***************************************************************************)
\* The events of the last run whose type is in types.
EventsOfType(types) == {k \in 1..Len(stream) : stream[k].type \in types}

\* C1: when a run of StateAgent has finished and the client of its thread
\* has handled the run's events, the client's state document equals the
\* agent's memory of that thread.
C1_ClientStateEqualsMemory ==
    (who = "state" /\ runs > 0 /\ ~raised /\ ~clientRaised /\ clientPos = Len(stream))
        => clientState[runThread] = memory[runThread]

\* C9: the events of a run begin with the run's only RUN_STARTED and end
\* with its only terminal event, RUN_FINISHED or RUN_ERROR.
C9_OneStartFirstOneTerminalLast ==
    runs > 0 =>
        /\ EventsOfType({RUN_STARTED}) = {1}
        /\ EventsOfType({RUN_FINISHED, RUN_ERROR}) = {Len(stream)}

(***************************************************************************)
(* Properties of truncated runs                                            *)
(***************************************************************************)
\* The body ends inside a text message: after the TEXT_MESSAGE_START there
\* are only TEXT_MESSAGE_CONTENT frames, at least one, and then the body ends.
EndsInsideMessage ==
    /\ ValidBody
    /\ \E k \in 1..(Len(events) - 1) :
        /\ IsStart(EventCatalog[events[k]])
        /\ \A j \in (k + 1)..Len(events) : IsContent(EventCatalog[events[j]])

\* C12: when the body ends inside a text message, forwardToAGUIServer does
\* not return the deltas accumulated for that message as its response.
C12_PartialContentDiscarded ==
    (who = "forward" /\ fwdPc = "returned" /\ EndsInsideMessage)
        => fwdResult # DeltasSinceStart(EventsOf(events, Len(events), {}))

\* The upstream run failed: fetch rejected, the response had no body, or the
\* body ended without a RUN_FINISHED event.
UpstreamFailed ==
    \/ fwdPc \in {"caught", "nobody"}
    \/ /\ fwdPc = "returned"
       /\ \A k \in 1..Len(events) :
            events[k] = MALFORMED \/ EventCatalog[events[k]] # EvRunFinished

\* C13: after an upstream failure the stream of handleDirectRequest does not
\* end with RUN_FINISHED and the response of handleGraphQLRequest does not
\* carry the status code SUCCESS.
C13_UpstreamFailureSurfaced ==
    UpstreamFailed =>
        /\ downstream # <<>> => downstream[Len(downstream)].type # RUN_FINISHED
        /\ gqlStatus # SUCCESS

(***************************************************************************)
(* Properties of ChatInterface's message list                              *)
(***************************************************************************)
\* A content event for which no message with its message_id is open.
Stray(msg) ==
    /\ msg.type = TEXT_MESSAGE_CONTENT
    /\ ~\E i \in 1..Len(chatMessages) :
            chatMessages[i].isStreaming /\ chatMessages[i].id = messageIdOf(msg.n)

\* C14: when ChatInterface is dispatched a TEXT_MESSAGE_CONTENT event whose
\* message_id is not that of an open message, neither the message list nor
\* the accumulator changes.
C14_StrayContentIgnored ==
    [][(who = "chat" /\ wsPos' = wsPos + 1 /\ Stray(wsSent[wsPos + 1]))
        => /\ chatMessages' = chatMessages
           /\ currentStreamingMessageRef' = currentStreamingMessageRef]_vars

\* C15: at most one message of ChatInterface's list is open.
C15_AtMostOneOpenMessage ==
    who = "chat" =>
        Cardinality({i \in 1..Len(chatMessages) : chatMessages[i].isStreaming}) <= 1

(***************************************************************************)
(* Properties of the client's state document                               *)
(***************************************************************************)
\* The client handles, in this step, an event of the given type.
Handles(type) ==
    /\ who = "client"
    /\ clientPos' = clientPos + 1
    /\ stream[clientPos + 1].type = type

\* C16: handling a STATE_SNAPSHOT makes the client's document the snapshot,
\* whatever the document was, and handling the same snapshot again leaves
\* that document as it is.
C16_SnapshotReplaces ==
    [][Handles(STATE_SNAPSHOT) =>
        /\ clientState'[runThread] = stream[clientPos + 1].snapshot
        /\ clientHandle(clientState'[runThread], stream[clientPos + 1]).node
            = clientState'[runThread]]_vars

\* C16, witness: the same snapshot, not the empty one, was handled twice.
C16_Witness ==
    /\ who = "client"
    /\ clientPos = 2
    /\ stream[1].type = STATE_SNAPSHOT
    /\ stream[2] = stream[1]
    /\ stream[1].snapshot # EmptyDict
    /\ clientState[runThread] = stream[1].snapshot

\* The path parts[i..] addresses a place of node where op can put a value
\* (RFC 6902): every intermediate part is a key of an object or an index in
\* an array, and the last one is a key of an object, '-' or an index in range
\* of an array.
RECURSIVE Addresses(_, _, _, _)
Addresses(node, parts, i, op) ==
    IF i > Len(parts) THEN TRUE
    ELSE IF node.t = "dict"
    THEN i = Len(parts)
         \/ (parts[i] \in DOMAIN node.v /\ Addresses(node.v[parts[i]], parts, i + 1, op))
    ELSE IF node.t = "list"
    THEN IF i = Len(parts)
         THEN \/ parts[i] = <<"-">> /\ op = "add"
              \/ /\ isdigit(parts[i])
                 /\ int(parts[i]) < Len(node.v) + (IF op = "add" THEN 1 ELSE 0)
         ELSE /\ isdigit(parts[i])
              /\ int(parts[i]) < Len(node.v)
              /\ Addresses(node.v[int(parts[i]) + 1], parts, i + 1, op)
    ELSE FALSE

\* The path of an operation is invalid for a document: a missing
\* intermediate, an index out of range, or a parent that is no container.
InvalidPath(doc, operation) ==
    ~Addresses(doc, parse_json_pointer(operation.path), 1, operation.op)

\* The document after the first operation of a delta alone.
AfterFirst(doc, delta) == handle_state_delta(doc, <<delta[1]>>).node

\* C17: when a STATE_DELTA [op1, op2] whose op2 has an invalid path is
\* handled, the document afterwards is the one before or the one with op1
\* alone applied.
C17_PatchAtomic ==
    [][(/\ Handles(STATE_DELTA)
        /\ Len(stream[clientPos + 1].delta) = 2
        /\ InvalidPath(AfterFirst(clientState[runThread], stream[clientPos + 1].delta),
                       stream[clientPos + 1].delta[2]))
        => clientState'[runThread]
            \in {clientState[runThread],
                 AfterFirst(clientState[runThread], stream[clientPos + 1].delta)}]_vars

\* The reference tokens of a JSON Pointer (RFC 6901): the pieces after each
\* '/', the empty piece included, so that "/" names the key "".
ReferenceTokens(path) ==
    IF path = <<>> THEN <<>> ELSE split_slash(SubSeq(path, 2, Len(path)))

\* No node of the document.
Absent == [t |-> "absent", v |-> <<>>]

\* The node of a document under the keys keys[i..n] of objects, or Absent where
\* a key is absent or the node is no object.
RECURSIVE NodeAt(_, _, _, _)
NodeAt(node, keys, i, n) ==
    IF i > n THEN node
    ELSE IF node.t = "dict" /\ keys[i] \in DOMAIN node.v
    THEN NodeAt(node.v[keys[i]], keys, i + 1, n)
    ELSE Absent

\* The delta handled holds one add whose path ends in a key of an object of
\* the document.
AddsKeyOfObject(doc, delta) ==
    /\ Len(delta) = 1
    /\ delta[1].op = "add"
    /\ ReferenceTokens(delta[1].path) # <<>>
    /\ With(ReferenceTokens(delta[1].path), LAMBDA keys :
            With(NodeAt(doc, keys, 1, Len(keys) - 1), LAMBDA parent :
                parent # Absent /\ parent.t = "dict"))

\* The object under all but the last key of the path has, in after, the last
\* key set to value and every other key as in before.
KeySetOthersKept(before, after, path, value) ==
    With(ReferenceTokens(path), LAMBDA keys :
        With(<<NodeAt(before, keys, 1, Len(keys) - 1),
               NodeAt(after, keys, 1, Len(keys) - 1)>>, LAMBDA parents :
            /\ parents[2] # Absent
            /\ parents[2].t = "dict"
            /\ DOMAIN parents[2].v = DOMAIN parents[1].v \cup {keys[Len(keys)]}
            /\ \A k \in DOMAIN parents[2].v :
                parents[2].v[k] = IF k = keys[Len(keys)] THEN value ELSE parents[1].v[k]))

\* C18: an add whose path ends in a string key of an object of the document
\* sets that key to the value and leaves every other key of that object as
\* it was.
C18_AddSetsKeyOnly ==
    [][(Handles(STATE_DELTA)
        /\ AddsKeyOfObject(clientState[runThread], stream[clientPos + 1].delta))
        => KeySetOthersKept(clientState[runThread], clientState'[runThread],
                            stream[clientPos + 1].delta[1].path,
                            stream[clientPos + 1].delta[1].value)]_vars

\* The same for the keys that are not the empty text.
AddSetsNonEmptyKeyOnly ==
    [][(Handles(STATE_DELTA)
        /\ AddsKeyOfObject(clientState[runThread], stream[clientPos + 1].delta)
        /\ stream[clientPos + 1].delta[1].path # <<"/">>)
        => KeySetOthersKept(clientState[runThread], clientState'[runThread],
                            stream[clientPos + 1].delta[1].path,
                            stream[clientPos + 1].delta[1].value)]_vars

\* The document the last operation of a delta is applied to.
BeforeLast(doc, delta) == IF Len(delta) = 1 THEN doc ELSE AfterFirst(doc, delta)

\* The operation is an add whose path ends in '-' under an array of doc.
AppendsToArray(doc, operation) ==
    /\ operation.op = "add"
    /\ With(ReferenceTokens(operation.path), LAMBDA keys :
        /\ keys # <<>>
        /\ keys[Len(keys)] = <<"-">>
        /\ NodeAt(doc, keys, 1, Len(keys) - 1).t = "list")

\* The array under all but the last key of the path is, in after, the one in
\* before with value as a new last element.
ValueAtEnd(before, after, path, value) ==
    With(ReferenceTokens(path), LAMBDA keys :
        With(<<NodeAt(before, keys, 1, Len(keys) - 1),
               NodeAt(after, keys, 1, Len(keys) - 1)>>, LAMBDA parents :
            /\ parents[2].t = "list"
            /\ Len(parents[2].v) = Len(parents[1].v) + 1
            /\ parents[2].v[Len(parents[2].v)] = value
            /\ \A k \in 1..Len(parents[1].v) : parents[2].v[k] = parents[1].v[k]))

\* C19: an add whose last path segment is '-' and whose parent is an array
\* puts the value at the end of that array, the elements before it kept.
C19_DashAppends ==
    [][(Handles(STATE_DELTA)
        /\ AppendsToArray(BeforeLast(clientState[runThread], stream[clientPos + 1].delta),
                          stream[clientPos + 1].delta[Len(stream[clientPos + 1].delta)]))
        => With(stream[clientPos + 1].delta, LAMBDA delta :
            ValueAtEnd(BeforeLast(clientState[runThread], delta), clientState'[runThread],
                       delta[Len(delta)].path, delta[Len(delta)].value))]_vars

\* C19: add /topics/- = "math" was handled on {"topics": ["weather"]} and the
\* document is {"topics": ["weather", "math"]}.
C19_Witness ==
    /\ who = "client"
    /\ clientPos = 1
    /\ stream[1].type = STATE_DELTA
    /\ stream[1].delta = <<[op |-> "add", path |-> Pointer(<<K_topics, <<"-">> >>),
                            value |-> PyStr(MATH)]>>
    /\ clientState[runThread]
        = dict(<< <<K_topics, PyList(<<PyStr(WEATHER), PyStr(MATH)>>)>> >>)

\* The step is a run of the agent on the thread tid.
RunsOn(tid) == runs' = runs + 1 /\ runThread' = tid

C21_ThreadIdStable ==
    who = "chat" =>
        \A i \in 1..Len(wsRequests), j \in 1..Len(wsRequests) :
            i # j => /\ wsRequests[i].thread_id = wsRequests[j].thread_id
                     /\ wsRequests[i].run_id # wsRequests[j].run_id

\* A run request sent over the socket has not reached its end: the server
\* has not started it yet, is in the middle of it, or its RUN_FINISHED or
\* RUN_ERROR was not yet dispatched to ws.onmessage.
RunActive ==
    \/ RequestsTaken < Len(wsRequests)
    \/ srvPhase \in {"run", "message"}
    \/ \E k \in (wsPos + 1)..Len(wsSent) : wsSent[k].type \in {RUN_FINISHED, RUN_ERROR}

\* C22: ChatInterface sends a run request only when no request sent before
\* is still active.
C22_OneActiveRun ==
    [][(who = "chat" /\ Len(wsRequests') = Len(wsRequests) + 1) => ~RunActive]_vars

(***************************************************************************)
(* One WebSocketAgent with two run() subscriptions                         *)
(***************************************************************************)
\* The two runs; the socket a run's ensureConnection creates has its number.
Subs == {1, 2}

\* Bound: the events the server sends for one run input.
RunLength == 2

\* No WebSocket object.
NoSocket == [state |-> "NONE", onmessage |-> 0, inputs |-> <<>>, sent |-> <<>>, pos |-> 0]

\* The agent as one value, for the handlers below.
Agent == [websocket |-> websocket, sockets |-> sockets, subscriptions |-> subscriptions]

\* The cleanup function of a run's observable (WebSocketAgent.ts 86-90): it
\* closes this.websocket, whichever run opened it.
overlapCleanup(st) ==
    IF st.websocket # 0 /\ st.sockets[st.websocket].state = "OPEN"
    THEN [st EXCEPT !.sockets[st.websocket].state = "CLOSING"]
    ELSE st

\* observer.error of run r: the first one ends the subscription and runs
\* the cleanup function.
overlapError(st, r) ==
    IF st.subscriptions[r].obs = "active"
    THEN overlapCleanup([st EXCEPT !.subscriptions[r].obs = "errored",
                                   !.subscriptions[r].pc = "failed"])
    ELSE [st EXCEPT !.subscriptions[r].pc = "failed"]

\* connectAndRun of run r after `await this.ensureConnection()` resolved
\* with this.websocket (WebSocketAgent.ts 45-75): send throws on a socket
\* that is still connecting, or on null after disconnect(), and the catch
\* block (77-80) passes the error on; otherwise the input is sent (dropped
\* by a closing socket) and the run's handlers replace the ones on the socket.
connectAndRun(st, r) ==
    With(st.websocket, LAMBDA ws :
    IF ws = 0 \/ st.sockets[ws].state = "CONNECTING" THEN overlapError(st, r)
    ELSE [st EXCEPT !.sockets[ws].inputs =
                        IF st.sockets[ws].state = "OPEN" THEN Append(@, r) ELSE @,
                    !.sockets[ws].onmessage = r,
                    !.subscriptions[r].pc = "running"])

\* ensureConnection of run r (WebSocketAgent.ts 13-39): an open
\* this.websocket resolves at once; otherwise a new WebSocket replaces
\* this.websocket, whatever socket was there.
ensureConnection(st, r) ==
    IF st.websocket # 0 /\ st.sockets[st.websocket].state = "OPEN"
    THEN connectAndRun(st, r)
    ELSE [st EXCEPT !.websocket = r,
                    !.sockets[r] = [NoSocket EXCEPT !.state = "CONNECTING"],
                    !.subscriptions[r].pc = "connecting"]

\* The agent after a handler ran.
Becomes(st) ==
    /\ websocket' = st.websocket
    /\ sockets' = st.sockets
    /\ subscriptions' = st.subscriptions
    /\ UNCHANGED <<decodeVars, bridgeVars, wsVars, now, agentVars, callVars, toolVars,
                   pageVars>>

\* A subscriber subscribes to run(input) (WebSocketAgent.ts 41-84).
Subscribe ==
    /\ who = "overlap"
    /\ \E r \in Subs :
        /\ subscriptions[r].pc = "idle"
        /\ \E st \in {ensureConnection([Agent EXCEPT !.subscriptions[r].obs = "active"], r)} :
            Becomes(st)

\* The open event of a socket: onopen resolves the promise of the run that
\* created it with this.websocket as it is now (WebSocketAgent.ts 22-25).
OverlapOnOpen ==
    /\ who = "overlap"
    /\ \E s \in Subs :
        /\ sockets[s].state = "CONNECTING"
        /\ \E st \in {With([Agent EXCEPT !.sockets[s].state = "OPEN"], LAMBDA a :
                        IF a.subscriptions[s].pc = "connecting"
                        THEN connectAndRun(a, s) ELSE a)} :
            Becomes(st)

\* The connection timeout of run r's ensureConnection (WebSocketAgent.ts
\* 33-37): it rejects when this.websocket is not open.
OverlapTimeout ==
    /\ who = "overlap"
    /\ \E r \in Subs :
        /\ subscriptions[r].pc = "connecting"
        /\ (IF websocket = 0 THEN TRUE ELSE sockets[websocket].state # "OPEN")
        /\ \E st \in {overlapError(Agent, r)} : Becomes(st)

\* The subscriber of run r unsubscribes: the subscription ends and the
\* cleanup function runs (WebSocketAgent.ts 86-90); connectAndRun, if it is
\* still awaiting the connection, goes on when the promise settles.
OverlapUnsubscribe ==
    /\ who = "overlap"
    /\ \E r \in Subs :
        /\ subscriptions[r].obs = "active"
        /\ \E st \in {overlapCleanup([Agent EXCEPT !.subscriptions[r].obs = "unsubscribed"])} :
            Becomes(st)

\* disconnect() (WebSocketAgent.ts 94-99): this.websocket is closed and
\* forgotten.
OverlapDisconnect ==
    /\ who = "overlap"
    /\ websocket # 0
    /\ Becomes([Agent EXCEPT
            !.sockets[websocket].state =
                IF @ \in {"CONNECTING", "OPEN"} THEN "CLOSING" ELSE @,
            !.websocket = 0])

\* The error event of a socket whose connection fails: the socket is closed
\* and onerror rejects the promise of the run that created it
\* (WebSocketAgent.ts 27-30).
OverlapOnError ==
    /\ who = "overlap"
    /\ \E s \in Subs :
        /\ sockets[s].state = "CONNECTING"
        /\ \E st \in {With([Agent EXCEPT !.sockets[s].state = "CLOSED"], LAMBDA a :
                        IF a.subscriptions[s].pc = "connecting"
                        THEN overlapError(a, s) ELSE a)} :
            Becomes(st)

\* The k-th event of run r.
RunEvent(r, k) == [run |-> r, k |-> k]

\* The server answers the inputs it received on a socket one after another,
\* each with the events of its run.
OverlapServerSend ==
    /\ who = "overlap"
    /\ \E s \in Subs :
        /\ sockets[s].state = "OPEN"
        /\ Len(sockets[s].sent) < RunLength * Len(sockets[s].inputs)
        /\ \E n \in {Len(sockets[s].sent)} :
            Becomes([Agent EXCEPT !.sockets[s].sent =
                Append(@, RunEvent(sockets[s].inputs[(n \div RunLength) + 1],
                                   (n % RunLength) + 1))])

\* A message event of a socket, dispatched to the ws.onmessage installed on
\* it (WebSocketAgent.ts 52-61): observer.next of that run's observer.
OverlapOnMessage ==
    /\ who = "overlap"
    /\ \E s \in Subs :
        /\ sockets[s].state = "OPEN"
        /\ sockets[s].pos < Len(sockets[s].sent)
        /\ \E r \in {sockets[s].onmessage} :
            Becomes([Agent EXCEPT
                !.sockets[s].pos = @ + 1,
                !.subscriptions[r].delivered =
                    IF subscriptions[r].obs = "active"
                    THEN Append(@, sockets[s].sent[sockets[s].pos + 1]) ELSE @])

InitOverlap ==
    /\ who = "overlap"
    /\ IdleDecode
    /\ IdleBridge
    /\ IdleWS
    /\ IdleAgents
    /\ IdleCall
    /\ now = 1
    /\ websocket = 0
    /\ sockets = [s \in Subs |-> NoSocket]
    /\ IdleTools /\ IdlePage
    /\ subscriptions = [r \in Subs |-> [pc |-> "idle", obs |-> "none", delivered |-> <<>>]]

NextOverlap ==
    \/ Subscribe
    \/ OverlapOnOpen
    \/ OverlapTimeout
    \/ OverlapUnsubscribe
    \/ OverlapDisconnect
    \/ OverlapOnError
    \/ OverlapServerSend
    \/ OverlapOnMessage

SpecOverlap == InitOverlap /\ [][NextOverlap]_vars

\* C23: every event delivered to the observer of a run is an event of that
\* run, and once every message sent was dispatched an observer that is
\* still active has received each event sent for its run.
C23_RunsIndependent ==
    who = "overlap" =>
        \A r \in Subs :
            /\ \A k \in 1..Len(subscriptions[r].delivered) :
                subscriptions[r].delivered[k].run = r
            /\ (subscriptions[r].obs = "active"
                /\ \A s \in Subs : sockets[s].pos = Len(sockets[s].sent))
                => \A s \in Subs : \A k \in 1..Len(sockets[s].sent) :
                    sockets[s].sent[k].run = r =>
                        \E j \in 1..Len(subscriptions[r].delivered) :
                            subscriptions[r].delivered[j] = sockets[s].sent[k]

\* How many times the input of run r was sent over the socket s.
TimesSent(socks, s, r) ==
    Cardinality({k \in 1..Len(socks[s].inputs) : socks[s].inputs[k] = r})

\* C24: once the subscriber of a run has unsubscribed, the input of that run
\* is not sent over any socket and no event is delivered to its observer.
C24_UnsubscribeReleases ==
    [][\A r \in Subs :
        (who = "overlap" /\ subscriptions[r].obs = "unsubscribed") =>
            /\ \A s \in Subs : TimesSent(sockets', s, r) = TimesSent(sockets, s, r)
            /\ subscriptions'[r].delivered = subscriptions[r].delivered]_vars

\* The chunk handleDirectRequest enqueued that ends at offset e of the body.
ChunkEndingAt(e) ==
    With({x \in ends : x < e}, LAMBDA before :
        SubSeq(wire, (IF before = {} THEN 0
                      ELSE CHOOSE x \in before : \A y \in before : y <= x) + 1, e))

\* A chunk is one SSE frame of one event: 'data: ', a payload that is not
\* prefixed again and parses as a JSON object with a type, and "\n\n".
OneFrame(chunk) ==
    /\ startsWith(chunk, DATA_PREFIX)
    /\ Len(chunk) >= Len(DATA_PREFIX) + 2
    /\ SubSeq(chunk, Len(chunk) - 1, Len(chunk)) = <<LF, LF>>
    /\ With(SubSeq(chunk, Len(DATA_PREFIX) + 1, Len(chunk) - 2), LAMBDA payload :
        /\ ~startsWith(payload, DATA_PREFIX)
        /\ JSONparse(payload).ok
        /\ JSONparse(payload).isObject
        /\ Get(JSONparse(payload), K_type) # Undefined)

\* C25: every chunk handleDirectRequest has enqueued is exactly one SSE
\* frame of one event.
C25_OneFramePerChunk ==
    bridgePc \in {"streaming", "closed"} => \A e \in ends : OneFrame(ChunkEndingAt(e))

\* The same for the response texts without a quote, a backslash or a line
\* feed.
OneFramePerPlainChunk ==
    (bridgePc \in {"streaming", "closed"}
     /\ \A k \in 1..Len(responseText) : responseText[k] \notin {QUOTE, BACKSLASH, LF})
        => \A e \in ends : OneFrame(ChunkEndingAt(e))

(***************************************************************************)
(* The decoders on bodies whose lines carry repeated 'data: ' prefixes     *)
(***************************************************************************)
\* Bound: the lines of one body.
MaxLines == 2

\* Bound: the 'data: ' prefixes in front of one payload.
MaxPrefixes == 3

\* A line of a body: an event of the catalogue behind 1..MaxPrefixes prefixes.
PrefixedLines == [id : EventIds, prefixes : 1..MaxPrefixes]

RECURSIVE Prefixes(_)
Prefixes(n) == IF n = 0 THEN <<>> ELSE DATA_PREFIX \o Prefixes(n - 1)

\* The frame of a line: the prefixes, the JSON of the event, "\n\n".
PrefixedFrame(l) == Prefixes(l.prefixes) \o dumps(EventCatalog[l.id]) \o <<LF, LF>>

RECURSIVE PrefixedWire(_)
PrefixedWire(ls) ==
    IF ls = <<>> THEN <<>> ELSE PrefixedFrame(Head(ls)) \o PrefixedWire(Tail(ls))

RECURSIVE PrefixedEnds(_)
PrefixedEnds(ls) ==
    IF ls = <<>> THEN {}
    ELSE PrefixedEnds(SubSeq(ls, 1, Len(ls) - 1)) \cup {Len(PrefixedWire(ls))}

\* AGUIClient._process_event_stream, one line (part_005 258-297), on
\* [current_message, log, stopped]: a second prefix is stripped once, a
\* payload json.loads rejects is passed over, RUN_FINISHED breaks the loop.
processLine(st, line) ==
    With(strip(line), LAMBDA line_str :
    IF ~startsWith(line_str, DATA_PREFIX) THEN st
    ELSE With(IF startsWith(slice(line_str, 6), DATA_PREFIX)
              THEN slice(slice(line_str, 6), 6) ELSE slice(line_str, 6),
              LAMBDA json_part :
         With(JSONparse(json_part), LAMBDA event_data :
         IF ~event_data.ok THEN st
         ELSE With([st EXCEPT !.log = Append(@, event_data.fields)], LAMBDA s1 :
              IF Get(event_data, K_type) = TEXT_MESSAGE_CONTENT
              THEN [s1 EXCEPT !.current_message = @ \o ToText(Get(event_data, K_delta))]
              ELSE IF Get(event_data, K_type) = RUN_FINISHED
              THEN [s1 EXCEPT !.stopped = TRUE]
              ELSE s1))))

\* The `async for line in response.content` loop, from line i on.
RECURSIVE processLines(_, _, _)
processLines(st, lines, i) ==
    IF i > Len(lines) \/ st.stopped THEN st
    ELSE With(processLine(st, lines[i]), LAMBDA s1 : processLines(s1, lines, i + 1))

process_event_stream(body) ==
    processLines([current_message |-> <<>>, log |-> <<>>, stopped |-> FALSE],
                 split(body), 1)

\* The Python client reads the response to its end.
PythonProcess ==
    /\ who = "python"
    /\ pos = 0
    /\ pos' = Len(wire)
    /\ reads' = reads + 1
    /\ \E st \in {process_event_stream(wire)} :
        /\ log' = st.log
        /\ assistantMessage' = st.current_message
    /\ UNCHANGED <<overlapVars, toolVars, pageVars, who, events, wire, ends, cut, fullResponse, fwdPc, messages,
                   homePc, closed, bridgeVars, wsVars, now, agentVars, callVars>>

InitPrefix ==
    /\ who \in {"forward", "home", "python"}
    /\ events \in SeqsUpTo(PrefixedLines, MaxLines) \ {<<>>}
    /\ wire = PrefixedWire(events)
    /\ ends = PrefixedEnds(events)
    /\ pos = 0
    /\ cut = Aligned
    /\ fullResponse = <<>>
    /\ fwdPc = IF who = "forward" THEN "reading" ELSE "idle"
    /\ assistantMessage = <<>>
    /\ messages = <<UserMessage>>
    /\ homePc = IF who = "home" THEN "reading" ELSE "idle"
    /\ log = <<>>
    /\ reads = 0
    /\ closed = TRUE
    /\ IdleBridge
    /\ IdleWS
    /\ IdleAgents
    /\ IdleCall
    /\ IdleOverlap /\ IdleTools /\ IdlePage
    /\ now = 1

NextPrefix == FwdRead \/ FwdDone \/ HomeRead \/ HomeDone \/ PythonProcess

SpecPrefix == InitPrefix /\ [][NextPrefix]_vars

\* The events of the lines that carry one or two prefixes, in order.
RECURSIVE EventsUnderTwoPrefixes(_)
EventsUnderTwoPrefixes(ls) ==
    IF ls = <<>> THEN <<>>
    ELSE (IF Head(ls).prefixes <= 2 THEN <<EventCatalog[Head(ls).id]>> ELSE <<>>)
         \o EventsUnderTwoPrefixes(Tail(ls))

\* A log up to its first terminal event.
UpToTerminal(l) ==
    IF \E k \in 1..Len(l) : IsTerminal(l[k])
    THEN SubSeq(l, 1, CHOOSE k \in 1..Len(l) :
                        IsTerminal(l[k]) /\ \A j \in 1..(k - 1) : ~IsTerminal(l[j]))
    ELSE l

\* The decoder has read the body to its end.
BodyDecoded == Done \/ (who = "python" /\ pos = Len(wire))

\* C26: a decoder that has read a body to its end has dispatched the event
\* of every line with one or two 'data: ' prefixes and of no line with
\* three (the Python client up to the RUN_FINISHED at which it stops).
C26_SecondPrefixStripped ==
    BodyDecoded =>
        log = IF who = "python" THEN UpToTerminal(EventsUnderTwoPrefixes(events))
              ELSE EventsUnderTwoPrefixes(events)

\* The same for the Python client alone.
PythonStripsSecondPrefix ==
    (who = "python" /\ BodyDecoded) => log = UpToTerminal(EventsUnderTwoPrefixes(events))

\* The timers of handleDirectRequest fire (route.ts 294, 303): start and
\* streamContent run as long as they have something to do.
SpecBridgeLive == SpecBridge /\ WF_vars(DirectStart) /\ WF_vars(StreamContent)

\* The chunks of the whole stream of responseText: RUN_STARTED,
\* TEXT_MESSAGE_START, one TEXT_MESSAGE_CONTENT for each character in index
\* order, TEXT_MESSAGE_END, RUN_FINISHED.
WholeStream ==
    <<frameRunStarted(threadId, runId), frameMessageStart(messageId)>>
    \o [k \in 1..Len(responseText) |-> frameMessageContent(messageId, responseText[k])]
    \o <<frameMessageEnd(messageId), frameRunFinished(threadId, runId)>>

\* The chunks enqueued so far are the first k chunks of the whole stream.
EnqueuedFirst(k) ==
    /\ wire = Concat(SubSeq(WholeStream, 1, k))
    /\ ends = {Len(Concat(SubSeq(WholeStream, 1, j))) : j \in 1..k}

\* What was enqueued is the whole stream as far as streamContent has come,
\* and all of it once the stream is closed.
StreamInOrder ==
    /\ bridgePc = "streaming" => EnqueuedFirst(2 + index) /\ ~closed
    /\ bridgePc = "closed" => EnqueuedFirst(Len(responseText) + 4) /\ closed

\* C27: handleDirectRequest enqueues RUN_STARTED, TEXT_MESSAGE_START, the
\* characters of responseText one TEXT_MESSAGE_CONTENT each in index order,
\* TEXT_MESSAGE_END and RUN_FINISHED and nothing else; the stream is
\* eventually closed, and nothing is enqueued after the close.
C27_WholeStreamThenClose ==
    /\ []StreamInOrder
    /\ [][bridgePc = "closed" => (wire' = wire /\ ends' = ends /\ bridgePc' = "closed")]_vars
    /\ <>(bridgePc = "closed")

\* C27: the stream of a text of two different characters is closed.
C27_Witness ==
    /\ bridgePc = "closed"
    /\ Len(responseText) = 2
    /\ responseText[1] # responseText[2]
    /\ Cardinality(ends) = 6

\* The operation has the given op and a path that ends in a numeric segment
\* under an array of doc.
IndexesArray(doc, operation, op) ==
    /\ operation.op = op
    /\ With(ReferenceTokens(operation.path), LAMBDA keys :
        /\ keys # <<>>
        /\ isdigit(keys[Len(keys)])
        /\ NodeAt(doc, keys, 1, Len(keys) - 1).t = "list")

\* The array under all but the last key of the path, in a document.
ArrayAt(doc, path) ==
    With(ReferenceTokens(path), LAMBDA keys : NodeAt(doc, keys, 1, Len(keys) - 1))

\* The index a path ends in.
IndexOf(path) == With(ReferenceTokens(path), LAMBDA keys : int(keys[Len(keys)]))

\* The array of the path has, in after, value at the index, the elements
\* before the index where they were and those from the index on one place
\* further.
InsertedAtIndex(before, after, path, value) ==
    With(<<ArrayAt(before, path).v, ArrayAt(after, path), IndexOf(path)>>, LAMBDA x :
        /\ x[2].t = "list"
        /\ Len(x[2].v) = Len(x[1]) + 1
        /\ x[3] < Len(x[2].v)
        /\ x[2].v[x[3] + 1] = value
        /\ \A k \in 1..Len(x[1]) :
            IF k <= x[3] THEN x[2].v[k] = x[1][k] ELSE x[2].v[k + 1] = x[1][k])

\* C28: an add whose path ends in a numeric segment i under an array puts the
\* value at index i of that array and moves the elements from i on one place
\* to the right, no element lost.
C28_AddInsertsAtIndex ==
    [][(Handles(STATE_DELTA)
        /\ IndexesArray(BeforeLast(clientState[runThread], stream[clientPos + 1].delta),
                        stream[clientPos + 1].delta[Len(stream[clientPos + 1].delta)], "add"))
        => With(stream[clientPos + 1].delta, LAMBDA delta :
            InsertedAtIndex(BeforeLast(clientState[runThread], delta),
                            clientState'[runThread],
                            delta[Len(delta)].path, delta[Len(delta)].value))]_vars

\* The same for an index that is at most the length of the array.
AddInsertsAtIndexInRange ==
    [][(Handles(STATE_DELTA)
        /\ With(stream[clientPos + 1].delta, LAMBDA delta :
            /\ IndexesArray(BeforeLast(clientState[runThread], delta),
                            delta[Len(delta)], "add")
            /\ IndexOf(delta[Len(delta)].path)
                <= Len(ArrayAt(BeforeLast(clientState[runThread], delta),
                               delta[Len(delta)].path).v)))
        => With(stream[clientPos + 1].delta, LAMBDA delta :
            InsertedAtIndex(BeforeLast(clientState[runThread], delta),
                            clientState'[runThread],
                            delta[Len(delta)].path, delta[Len(delta)].value))]_vars

\* The array of the path is, in after, the one in before with value in the
\* place of the element at the index.
OverwrittenAtIndex(before, after, path, value) ==
    With(<<ArrayAt(before, path).v, ArrayAt(after, path), IndexOf(path)>>, LAMBDA x :
        /\ x[2].t = "list"
        /\ Len(x[2].v) = Len(x[1])
        /\ \A k \in 1..Len(x[1]) :
            x[2].v[k] = IF k = x[3] + 1 THEN value ELSE x[1][k])

\* C29: a replace whose path ends in a numeric segment under an array puts
\* the value in the place of the element at that index when there is one;
\* when there is none the document stays as it was and the client raises.
C29_ReplaceAtIndex ==
    [][(Handles(STATE_DELTA)
        /\ IndexesArray(BeforeLast(clientState[runThread], stream[clientPos + 1].delta),
                        stream[clientPos + 1].delta[Len(stream[clientPos + 1].delta)],
                        "replace"))
        => With(stream[clientPos + 1].delta, LAMBDA delta :
           With(BeforeLast(clientState[runThread], delta), LAMBDA before :
            IF IndexOf(delta[Len(delta)].path) < Len(ArrayAt(before, delta[Len(delta)].path).v)
            THEN OverwrittenAtIndex(before, clientState'[runThread],
                                    delta[Len(delta)].path, delta[Len(delta)].value)
            ELSE /\ clientState'[runThread] = before
                 /\ clientRaised'))]_vars

\* The same without the raising: an index that does not exist leaves the
\* document as it was.
ReplaceAtIndexKeepsOrOverwrites ==
    [][(Handles(STATE_DELTA)
        /\ IndexesArray(BeforeLast(clientState[runThread], stream[clientPos + 1].delta),
                        stream[clientPos + 1].delta[Len(stream[clientPos + 1].delta)],
                        "replace"))
        => With(stream[clientPos + 1].delta, LAMBDA delta :
           With(BeforeLast(clientState[runThread], delta), LAMBDA before :
            IF IndexOf(delta[Len(delta)].path) < Len(ArrayAt(before, delta[Len(delta)].path).v)
            THEN OverwrittenAtIndex(before, clientState'[runThread],
                                    delta[Len(delta)].path, delta[Len(delta)].value)
            ELSE clientState'[runThread] = before))]_vars

\* A key before the last of the operation's path is absent from the object
\* of doc it is looked up in.
IntermediateAbsent(doc, operation) ==
    With(ReferenceTokens(operation.path), LAMBDA keys :
        \E n \in 1..(Len(keys) - 1) :
            /\ NodeAt(doc, keys, 1, n - 1).t = "dict"
            /\ keys[n] \notin DOMAIN NodeAt(doc, keys, 1, n - 1).v)

\* The node of doc at the whole path.
TargetOf(doc, path) ==
    With(ReferenceTokens(path), LAMBDA keys : NodeAt(doc, keys, 1, Len(keys)))

\* C30: for an operation with an absent intermediate key, an add creates the
\* intermediate objects and sets the value, and a replace leaves the
\* document as it was and makes the client raise.
C30_IntermediatesForAddOnly ==
    [][(Handles(STATE_DELTA)
        /\ IntermediateAbsent(BeforeLast(clientState[runThread], stream[clientPos + 1].delta),
                              stream[clientPos + 1].delta[Len(stream[clientPos + 1].delta)]))
        => With(stream[clientPos + 1].delta, LAMBDA delta :
            IF delta[Len(delta)].op = "add"
            THEN TargetOf(clientState'[runThread], delta[Len(delta)].path)
                    = delta[Len(delta)].value
            ELSE /\ clientState'[runThread] = BeforeLast(clientState[runThread], delta)
                 /\ clientRaised')]_vars

\* The half of it about add.
AddCreatesIntermediates ==
    [][(Handles(STATE_DELTA)
        /\ IntermediateAbsent(BeforeLast(clientState[runThread], stream[clientPos + 1].delta),
                              stream[clientPos + 1].delta[Len(stream[clientPos + 1].delta)])
        /\ stream[clientPos + 1].delta[Len(stream[clientPos + 1].delta)].op = "add")
        => With(stream[clientPos + 1].delta, LAMBDA delta :
            TargetOf(clientState'[runThread], delta[Len(delta)].path)
                = delta[Len(delta)].value)]_vars

\* C31: when ChatInterface is dispatched a RUN_ERROR event, isTyping is
\* false afterwards.
C31_RunErrorEndsTyping ==
    [][(who = "chat" /\ wsPos' = wsPos + 1 /\ wsSent[wsPos + 1].type = RUN_ERROR)
        => ~isTyping']_vars

(***************************************************************************)
(* Events of an unknown type in ChatInterface and in Home.sendMessage      *)
(***************************************************************************)
\* Either ChatInterface on its socket or Home.sendMessage reading a body.
InitUnknown == (who = "chat" /\ InitWS) \/ (who = "home" /\ Init)

NextUnknown ==
    \/ ServerSend
    \/ ChatOnOpen \/ ChatSendMessage \/ ChatOnMessage \/ ChatOnClose
    \/ ChatReconnect
    \/ HomeRead \/ HomeDone

SpecUnknown == InitUnknown /\ [][NextUnknown]_vars

\* The frames of a body that do not hold an event of the unknown type.
WithoutCustom(es) ==
    SelectSeq(es, LAMBDA i : i = MALFORMED \/ EventCatalog[i] # EvCustom)

HasCustom(es) == WithoutCustom(es) # es

\* The loop state of Home.sendMessage before the first read.
HomeStart ==
    [assistantMessage |-> <<>>, messages |-> <<UserMessage>>, log |-> <<>>,
     thrown |-> FALSE]

\* Home.sendMessage, having read the whole body frame by frame, shows what
\* it would show had the body been sent without the events of unknown type.
HomeIgnoresCustom ==
    (who = "home" /\ cut = NoCut /\ HasCustom(events))
        => /\ homePc # "threw"
           /\ homePc = "done" =>
                With(homeChunk(HomeStart, Wire(WithoutCustom(events))), LAMBDA r :
                     /\ messages = r.messages
                     /\ assistantMessage = r.assistantMessage)

\* ChatInterface, dispatched an event of unknown type, keeps its messages,
\* its accumulator, its running flag and its connection as they are.
ChatIgnoresCustom ==
    (who = "chat" /\ wsPos' = wsPos + 1 /\ wsSent[wsPos + 1].type = CUSTOM)
        => UNCHANGED <<chatMessages, currentStreamingMessageRef, isTyping,
                       isConnected, connectionStatus, socket>>

\* C32: an event whose type is unknown fails no decode and leaves the message
\* list, the open accumulator and the running flag of ChatInterface and of
\* Home.sendMessage as they were; the events after it are processed as if it
\* had not been sent.
C32_UnknownTypeIgnored == []HomeIgnoresCustom /\ [][ChatIgnoresCustom]_vars

\* C32 witness: ChatInterface has been dispatched an event of unknown type
\* in the middle of a text message of a run, and content after it.
C32_Witness ==
    /\ who = "chat" /\ isTyping
    /\ \E i \in 2..(wsPos - 1) :
        /\ wsSent[i].type = CUSTOM
        /\ wsSent[i - 1].type = TEXT_MESSAGE_CONTENT
        /\ wsSent[i + 1].type = TEXT_MESSAGE_CONTENT
    /\ Len(currentStreamingMessageRef) = 2

\* Home.sendMessage has read a body with an event of unknown type and a
\* content event after it.
HomeReadCustom ==
    /\ who = "home" /\ homePc = "done" /\ cut = NoCut
    /\ Len(events) = 2 /\ EventCatalog[events[1]] = EvCustom
    /\ assistantMessage = <<"a">>

\* C34: once handleDirectRequest has made its ids, the thread id written into
\* RUN_STARTED and RUN_FINISHED is the thread id that was forwarded upstream.
C34_ThreadIdForwardedIsEmitted ==
    bridgePc # "start" => threadId = fwdThreadId

\* C35: when the open event of a socket resolves the promise of the
\* ensureConnection that created it, the socket it resolves with, which
\* run() sends the input on, is open.
C35_ResolvesWithOpenSocket ==
    [][\A s \in Subs :
        (who = "overlap" /\ sockets[s].state = "CONNECTING"
            /\ sockets'[s].state = "OPEN" /\ subscriptions[s].pc = "connecting")
        => (IF websocket \in {0, s} THEN websocket = s
            ELSE sockets[websocket].state = "OPEN")]_vars

\* C36: the agent creates a WebSocket only when no socket it created before
\* is connecting or open.
C36_OneSocketAtATime ==
    [][\A r \in Subs :
        (who = "overlap" /\ sockets[r].state = "NONE"
            /\ sockets'[r].state = "CONNECTING")
        => \A s \in Subs \ {r} : sockets[s].state \notin {"CONNECTING", "OPEN"}]_vars

(***************************************************************************)
(* AdvancedAGUIClient: the tool calls it records                           *)
(***************************************************************************)
\* The tool call ids of the events.
ToolCallIds == {1, 2}

\* The argument fragments of TOOL_CALL_ARGS events; none is a JSON text.
ToolDeltas == {<<"{">>, <<"1">>}

\* Bound: the number of tool-call events given to the client.
MaxToolEvents == 4

TOOL_NAME == <<"c","a","l","c">>

\* The tool-call events, as event_data.
ToolEventSet ==
    [type : {"TOOL_CALL_START"}, tool_call_id : ToolCallIds, tool_call_name : {TOOL_NAME},
     delta : {<<>>}]
    \cup [type : {"TOOL_CALL_ARGS"}, tool_call_id : ToolCallIds, tool_call_name : {<<>>},
          delta : ToolDeltas]
    \cup [type : {"TOOL_CALL_END"}, tool_call_id : ToolCallIds, tool_call_name : {<<>>},
          delta : {<<>>}]

\* AdvancedAGUIClient._process_events (AG-UI-Tutorial.md 1470-1503) on
\* st = [current_tool_call, tool_results]; None is the empty sequence, the
\* one open call a sequence of one dict.  start_time, duration and
\* state_at_time are left out.
process_events(st, event_data) ==
    IF event_data.type = "TOOL_CALL_START"
    THEN [st EXCEPT !.current_tool_call =
            <<[id |-> event_data.tool_call_id, name |-> event_data.tool_call_name,
               args |-> <<>>]>>]
    ELSE IF event_data.type = "TOOL_CALL_ARGS"
    THEN (IF st.current_tool_call # <<>>
          THEN [st EXCEPT !.current_tool_call[1].args = @ \o event_data.delta]
          ELSE st)
    ELSE IF event_data.type = "TOOL_CALL_END"
    THEN (IF st.current_tool_call # <<>>
          THEN [st EXCEPT
                  !.tool_results =
                      setItem(@, event_data.tool_call_id,
                              [name |-> st.current_tool_call[1].name,
                               args |-> st.current_tool_call[1].args]),
                  !.current_tool_call = <<>>]
          ELSE st)
    ELSE st

\* The client is given one more event of the stream.
ClientToolEvent ==
    /\ who = "tools"
    /\ Len(toolLog) < MaxToolEvents
    /\ \E event_data \in ToolEventSet :
        /\ toolLog' = Append(toolLog, event_data)
        /\ \E st \in {process_events([current_tool_call |-> current_tool_call,
                                        tool_results |-> tool_results], event_data)} :
            /\ current_tool_call' = st.current_tool_call
            /\ tool_results' = st.tool_results
    /\ UNCHANGED <<decodeVars, bridgeVars, wsVars, now, agentVars, callVars, overlapVars,
                   pageVars>>

InitTools ==
    /\ who = "tools"
    /\ IdleDecode
    /\ IdleBridge
    /\ IdleWS
    /\ IdleAgents
    /\ IdleCall /\ IdleOverlap /\ IdlePage
    /\ now = 1
    /\ current_tool_call = <<>>
    /\ tool_results = <<>>
    /\ toolLog = <<>>

NextTools == ClientToolEvent

SpecTools == InitTools /\ [][NextTools]_vars

\* The events received after the last TOOL_CALL_START are all TOOL_CALL_ARGS
\* and that start was the one of tool call id.
OpenCall(id) ==
    \E i \in 1..Len(toolLog) :
        /\ toolLog[i].type = "TOOL_CALL_START" /\ toolLog[i].tool_call_id = id
        /\ \A j \in (i + 1)..Len(toolLog) : toolLog[j].type = "TOOL_CALL_ARGS"

\* a1 + ... + an: the fragments of the TOOL_CALL_ARGS events of tool call id
\* since the last TOOL_CALL_START.
OwnArgs(id) ==
    With(CHOOSE i \in 1..Len(toolLog) :
            /\ toolLog[i].type = "TOOL_CALL_START"
            /\ \A j \in (i + 1)..Len(toolLog) : toolLog[j].type = "TOOL_CALL_ARGS",
         LAMBDA i :
    Concat([j \in 1..(Len(toolLog) - i) |->
        IF toolLog[i + j].tool_call_id = id THEN toolLog[i + j].delta ELSE <<>>]))

\* C33: when TOOL_CALL_END(id) ends the tool call that TOOL_CALL_START(id)
\* opened, the args stored for id are the fragments of the TOOL_CALL_ARGS
\* events of id in between, concatenated in order, and nothing else.
C33_ArgsConcatenated ==
    [][\A id \in ToolCallIds :
        (who = "tools" /\ OpenCall(id) /\ Len(toolLog') = Len(toolLog) + 1
            /\ toolLog'[Len(toolLog')].type = "TOOL_CALL_END"
            /\ toolLog'[Len(toolLog')].tool_call_id = id)
        => tool_results'[id].args = OwnArgs(id)]_vars

\* The same when every TOOL_CALL_ARGS in between has the id of the call.
ArgsOfOneCallConcatenated ==
    [][\A id \in ToolCallIds :
        (who = "tools" /\ OpenCall(id) /\ Len(toolLog') = Len(toolLog) + 1
            /\ toolLog'[Len(toolLog')].type = "TOOL_CALL_END"
            /\ toolLog'[Len(toolLog')].tool_call_id = id
            /\ \A j \in 1..Len(toolLog) :
                 toolLog[j].type = "TOOL_CALL_ARGS" => toolLog[j].tool_call_id = id)
        => tool_results'[id].args = OwnArgs(id)]_vars

(***************************************************************************)
(* Home: the input, the send button and sendMessage from call to finally   *)
(***************************************************************************)
\* Bound: the number of messages the user sends.
MaxSends == 2

\* Bound: the number of frames of a body the page is answered with.
MaxBodyFrames == 3

\* What the user types: blanks only, or a text.
HomeTexts == {<<SPACE>>, INPUT}

\* The bodies the page is answered with: text message events, framed.
HomeBodies ==
    SeqsUpTo({i \in EventIds : EventCatalog[i] \in {EvStart, EvContent(<<"a">>), EvEnd}},
             MaxBodyFrames) \ {<<>>}

ERROR_CONNECTING_TO_SERVER ==
    <<"E","r","r","o","r"," ","c","o","n","n","e","c","t","i","n","g"," ","t","o",
      " ","s","e","r","v","e","r">>

\* The message of the outer catch block (part_001 115-119); its id is taken
\* from the clock.
ErrorMessage ==
    [id |-> <<"e">>, role |-> V_assistant, content |-> ERROR_CONNECTING_TO_SERVER]

\* An input and a button that are never disabled.
neverDisabled(l) == FALSE

\* disabled={loading} of the input and the loading part of the button's
\* disabled={loading || !input.trim()} (part_001 184-189).
disabled(l) == l

\* onChange of the input (part_001 181).
HomeType ==
    /\ who = "page"
    /\ ~disabled(loading)
    /\ \E text \in HomeTexts : input # text /\ input' = text
    /\ UNCHANGED <<decodeVars, bridgeVars, wsVars, now, agentVars, callVars, overlapVars,
                   toolVars, loading>>

\* A click on the button or Enter in the input runs sendMessage past its
\* guard up to the fetch (part_001 17-31); the id of the user message is
\* taken from the clock.
HomeSendMessage ==
    /\ who = "page"
    /\ ~disabled(loading)
    /\ trim(input) # <<>>
    /\ Cardinality({i \in 1..Len(messages) : messages[i].role = ROLE_USER}) < MaxSends
    /\ messages' = Append(messages, [UserMessage EXCEPT !.content = input])
    /\ loading' = TRUE
    /\ input' = <<>>
    /\ homePc' = "fetching"
    /\ UNCHANGED <<who, events, wire, ends, pos, cut, fullResponse, fwdPc, assistantMessage,
                   log, reads, closed, bridgeVars, wsVars, now, agentVars, callVars,
                   overlapVars, toolVars>>

\* fetch resolves with a response that has a body (part_001 31-61).
HomeFetchResolves ==
    /\ who = "page"
    /\ homePc = "fetching"
    /\ \E body \in HomeBodies :
        /\ events' = body
        /\ wire' = Wire(body)
        /\ ends' = FrameEnds(body)
    /\ pos' = 0
    /\ reads' = 0
    /\ closed' = TRUE
    /\ assistantMessage' = <<>>
    /\ log' = <<>>
    /\ homePc' = "reading"
    /\ UNCHANGED <<who, cut, fullResponse, fwdPc, messages, bridgeVars, wsVars, now,
                   agentVars, callVars, overlapVars, toolVars, pageVars>>

\* The outer catch block and finally (part_001 113-122).
homeFails ==
    /\ messages' = Append(messages, ErrorMessage)
    /\ loading' = FALSE
    /\ homePc' = "failed"
    /\ UNCHANGED <<who, events, wire, ends, pos, cut, fullResponse, fwdPc, assistantMessage,
                   log, reads, closed, bridgeVars, wsVars, now, agentVars, callVars,
                   overlapVars, toolVars, input>>

\* fetch resolves with a response without a body: 'No response body' is
\* thrown (part_001 52-54).
HomeFetchNoBody ==
    /\ who = "page"
    /\ homePc = "fetching"
    /\ homeFails

\* fetch rejects.
HomeFetchRejects ==
    /\ who = "page"
    /\ homePc = "fetching"
    /\ homeFails

\* reader.read() rejects: the connection is lost while the body is read.
HomeReadRejects ==
    /\ who = "page"
    /\ homePc = "reading"
    /\ homeFails

InitHome ==
    /\ who = "page"
    /\ IdleDecode
    /\ IdleBridge
    /\ IdleWS
    /\ IdleAgents
    /\ IdleCall /\ IdleOverlap /\ IdleTools
    /\ now = 1
    /\ loading = FALSE
    /\ input = <<>>

NextHome ==
    \/ HomeType
    \/ HomeSendMessage
    \/ HomeFetchResolves \/ HomeFetchNoBody \/ HomeFetchRejects
    \/ HomeRead \/ HomeReadRejects \/ HomeDone

SpecHome == InitHome /\ [][NextHome]_vars

IsEnd(fs) == fs[1] = <<K_type, TEXT_MESSAGE_END>>

\* Every message of the list is complete: the last event sendMessage
\* dispatched is a TEXT_MESSAGE_END, or sendMessage has left its loop.
Completed ==
    \/ homePc \in {"done", "failed"}
    \/ homePc = "reading" /\ log # <<>> /\ IsEnd(log[Len(log)])

\* C37: once the messages of Home are complete, a step may add messages and
\* leaves each message that is there as it is.
C37_FinalizedImmutable ==
    [][(who = "page" /\ Completed)
        => /\ Len(messages') >= Len(messages)
           /\ \A i \in 1..Len(messages) : messages'[i] = messages[i]]_vars

\* The same for the messages of the runs before: what a run ended with is
\* not changed by the next run.
EarlierRunsImmutable ==
    [][(who = "page" /\ homePc \in {"done", "failed"})
        => /\ Len(messages') >= Len(messages)
           /\ \A i \in 1..Len(messages) : messages'[i] = messages[i]]_vars

\* The fetch promise settles, reader.read() resolves, and the loop goes on
\* when it has.
SpecHomeLive ==
    /\ SpecHome
    /\ WF_vars(HomeFetchResolves \/ HomeFetchNoBody \/ HomeFetchRejects)
    /\ WF_vars(HomeRead)
    /\ WF_vars(HomeDone)

\* A step of sendMessage past its guard: a user message is appended.
Sends == Len(messages') = Len(messages) + 1 /\ messages'[Len(messages')].role = ROLE_USER

\* A step in which the fetch fails: it rejects, or resolves without a body.
FetchFails == homePc = "fetching" /\ homePc' = "failed"

\* C38: sendMessage past its guard starts only while loading is false and
\* sets loading; loading, once true, becomes false again; and a fetch that
\* rejects or has no body appends the one message 'Error connecting to
\* server', of the assistant.
C38_LoadingSetAndCleared ==
    /\ [][Sends => ~loading /\ loading']_vars
    /\ (loading ~> ~loading)
    /\ [][FetchFails
            => /\ Len(messages') = Len(messages) + 1
               /\ SubSeq(messages', 1, Len(messages)) = messages
               /\ messages'[Len(messages')].role = V_assistant
               /\ messages'[Len(messages')].content = ERROR_CONNECTING_TO_SERVER
               /\ ~loading']_vars

\* C38 witness: a second sendMessage has ended after a first one, one of
\* them with the error message, and loading is false again.
C38_Witness ==
    /\ who = "page" /\ ~loading /\ homePc = "done"
    /\ Cardinality({i \in 1..Len(messages) : messages[i].role = ROLE_USER}) = MaxSends
    /\ \E i \in 1..Len(messages) : messages[i] = ErrorMessage
=============================================================================
